---- MODULE Spec2Model ----
(***************************************************************************)
(* A model of lolog's LatentOrderLikelihood<Engine>                        *)
(* (inst/include/LatentOrderLikelihood.h): the engine's two shared models, *)
(* the per-call running clone, and the samplers that walk a vertex order   *)
(* or an edge order one dyad at a time under the dyadUpdate / toggle /     *)
(* rollback discipline.                                                    *)
(*                                                                         *)
(* C++ vectors are sequences; a C++ index k is position k + 1.             *)
(* Model<Engine>, the network class and Ranker are not part of the header: *)
(* their operations are written from their documented interface.           *)
(***************************************************************************)
EXTENDS Integers, Sequences, FiniteSets, TLC

\* ------------------------------------------------------------------ bounds

\* Largest vertex count of a network.
N == 3

\* Largest number of observed edges of the network the engine is built on.
MaxObsEdges == 3

\* Longest edge order handed to an edge-order entry point.
MaxEdgeOrderLen == 2

\* Largest entry of an ordering covariate.
MaxCovariate == 2

\* Largest nOrders handed to the variational entry points.
MaxOrders == 2

\* Largest vertex count of a network the unconstrained entry points are
\* called on.
MaxUnconstrainedN == 2

\* ----------------------------------------------------------------- vectors

At(vec, k) == vec[k + 1]

Put(vec, k, x) == [vec EXCEPT ![k + 1] = x]

VecSub(a, b) == [m \in 1..Len(a) |-> a[m] - b[m]]

VecAdd(a, b) == [m \in 1..Len(a) |-> a[m] + b[m]]

Zeros(k) == [m \in 1..k |-> 0]

Range(vec) == {vec[m] : m \in 1..Len(vec)}

Perms(n) == {p \in [1..n -> 0..(n - 1)] : Range(p) = 0..(n - 1)}

\* ---------------------------------------------------------------- networks

\* A network: vertex count, directedness, edge set.  An undirected edge is
\* stored once, smaller end first.
EdgeKey(g, u, v) == IF g.directed \/ u <= v THEN <<u, v>> ELSE <<v, u>>

AllDyads(n, directed) ==
  {d \in (0..(n - 1)) \X (0..(n - 1)) :
      d[1] # d[2] /\ (directed \/ d[1] < d[2])}

size(g) == g.n

isDirected(g) == g.directed

hasEdge(g, u, v) == EdgeKey(g, u, v) \in g.edges

toggle(g, u, v) ==
  [g EXCEPT !.edges = IF EdgeKey(g, u, v) \in @
                      THEN @ \ {EdgeKey(g, u, v)}
                      ELSE @ \cup {EdgeKey(g, u, v)}]

emptyGraph(g) == [g EXCEPT !.edges = {}]

\* ------------------------------------------------------------------ Model

\* The statistics of the model's terms on a network: the edge count and the
\* number of vertices of degree 0.
Degree(g, v) == Cardinality({e \in g.edges : e[1] = v \/ e[2] = v})

Statistics(g) ==
  << Cardinality(g.edges),
     Cardinality({v \in 0..(g.n - 1) : Degree(g, v) = 0}) >>

RECURSIVE Dot(_, _, _)
Dot(a, b, m) == IF m = 0 THEN 0 ELSE a[m] * b[m] + Dot(a, b, m - 1)

\* A Model: the network it is bound to (a name in the network store), its
\* parameters, its vertex-ordering covariate, its cached statistics and the
\* statistics saved by the last tentative update.
NewModel(netId, th, hasOrd, ord, st) ==
  [net |-> netId, thetas |-> th, hasVertexOrder |-> hasOrd,
   vertexOrder |-> ord, stats |-> st, last |-> st]

\* Model::clone(): a copy bound to the same network object.
clone(m) == m

\* Model::setNetwork(net)
setNetwork(m, netId) == [m EXCEPT !.net = netId]

\* Model::calculate(): the statistics recomputed from the network.
calculate(m, g) == [m EXCEPT !.stats = Statistics(g), !.last = Statistics(g)]

\* Model::statistics()
statistics(m) == m.stats

\* Model::logLik()
logLik(m) == Dot(m.thetas, m.stats, Len(m.thetas))

\* Model::setThetas(newThetas)
setThetasOf(m, th) == [m EXCEPT !.thetas = th]

\* Model::dyadUpdate(u, v, order, egoIndex): the caches move to the network
\* with dyad (u, v) toggled; the network itself is left alone.
dyadUpdate(m, g, u, v) ==
  [m EXCEPT !.last = m.stats,
            !.stats = VecAdd(m.stats,
                             VecSub(Statistics(toggle(g, u, v)), Statistics(g)))]

\* Model::rollback(): the caches return to what the last dyadUpdate saved.
rollback(m) == [m EXCEPT !.stats = m.last]

\* ----------------------------------------------------------- order helpers

Swap(vec, a, b) == [vec EXCEPT ![a + 1] = vec[b + 1], ![b + 1] = vec[a + 1]]

\* shuffle(vec, offset): every vector the loop can leave behind.  Step i
\* (0 <= i < offset - 1) draws ind = floor(runif(i, offset)), a position in
\* i .. offset - 1, and swaps positions i and ind.
\* floor(Rf_runif(0.0, 1.0) * offset), the draw of the commented-out line 54:
\* any position below offset.
SwapIndicesFromZero(i, offset) == 0..(offset - 1)

\* long ind = floor(Rf_runif(i, offset)) (line 55): the draw lies strictly
\* between i and offset.
SwapIndices(i, offset) == i..(offset - 1)

RECURSIVE ShuffleFrom(_, _, _)
ShuffleFrom(vec, i, offset) ==
  IF i < offset - 1
  THEN UNION {ShuffleFrom(Swap(vec, i, ind), i + 1, offset) :
                 ind \in SwapIndices(i, offset)}
  ELSE {vec}

shuffle(vec, offset) == ShuffleFrom(vec, 0, offset)

\* rank(*order, y, "random") (line 70): the ranks 1 .. size of the entries,
\* a smaller entry ranked lower, equal entries ranked among themselves at
\* random.
RandomRanks(order) ==
  {y \in [1..Len(order) -> 1..Len(order)] :
      /\ \A a, b \in 1..Len(order) : a # b => y[a] # y[b]
      /\ \A a, b \in 1..Len(order) : order[a] < order[b] => y[a] < y[b]}

\* The sort of lines 73-76 the wrong way round: the highest rank first.
SortByRankDescending(y) ==
  [k \in 1..Len(y) |-> CHOOSE v \in 0..(Len(y) - 1) : At(y, v) = Len(y) + 1 - k]

\* Lines 73-76: the indices 0 .. size-1 sorted by their rank, lowest first.
SortByRank(y) ==
  [k \in 1..Len(y) |-> CHOOSE v \in 0..(Len(y) - 1) : At(y, v) = k]

\* generateOrder(vertexOrder, order): every vertex order it can produce.
generateOrder(order) == {SortByRank(y) : y \in RandomRanks(order)}

\* The "vert order that isn't used" of the edge-order entry points.
Iota(n) == [k \in 1..n |-> k - 1]

UnusedVertOrder(m, n) ==
  IF m.hasVertexOrder THEN generateOrder(m.vertexOrder)
                      ELSE shuffle(Iota(n), n)

\* The position k < n with vert_order[k] = vertex found by the scan, if any.
ScanFor(vert_order, n, vertex) ==
  {k \in 0..(n - 1) :
      /\ k < Len(vert_order)
      /\ At(vert_order, k) = vertex
      /\ \A h \in 0..(k - 1) : At(vert_order, h) # vertex}

\* Rf_runif(0.0, 1.0) < downsampleRate, the rate counted in halves: a draw
\* lies strictly between 0 and 1.
SampleDraws(rate) ==
  IF rate <= 0 THEN {FALSE} ELSE IF rate >= 2 THEN {TRUE} ELSE BOOLEAN

\* ------------------------------------------------------------------- state

VARIABLES
  net,           \* the network objects: "obs" (the model's), "empty" (the
                 \* noTieModel's), "run" (the running clone's)
  model,         \* the likelihood model with the observed graph
  noTieModel,    \* the likelihood model with an empty graph
  runningModel,  \* the model a sampling call works on
  pc,            \* where the current call stands ("idle": no call)
  loc,           \* the current call's arguments and locals
  tx,            \* the latest dyadUpdate of the call and what resolved it
  rng,           \* outstanding GetRNGstate calls, and draws made with none
  failed,        \* Rf_error was raised
  warned,        \* a message was written to Rcout by the current call
  caller         \* the frame of the public entry point that made the
                 \* current call, if one did

vars ==
  <<net, model, noTieModel, runningModel, pc, loc, tx, rng, failed, warned,
    caller>>

\* What a sampling call never writes: the engine's two models, and the
\* frame of whoever called.
shared == <<model, noTieModel, failed, caller>>

NoCaller ==
  [fn |-> "none", nOrders |-> 0, i |-> 0, k |-> 0, rate |-> 0, truncRate |-> 0,
   stage |-> "none", vertices |-> <<>>, perm_heads |-> <<>>, perm_tails |-> <<>>]

NoNet == [n |-> 0, directed |-> FALSE, edges |-> {}]

NoTx == [id |-> 0, u |-> 0, v |-> 0, ego |-> 0, res |-> <<>>,
         preStats |-> <<>>, preEdges |-> {}]

NoLoc ==
  [fn |-> "none", rate |-> 0, vert_order |-> <<>>, workingVertOrder |-> <<>>,
   perm_heads |-> <<>>, perm_tails |-> <<>>, i |-> 0, j |-> 0,
   vertex |-> 0, alter |-> 0, sample |-> FALSE, hasEdge |-> FALSE,
   actorIndex |-> 0, terms |-> <<>>, newTerms |-> <<>>, outcome |-> <<>>,
   predictors |-> <<>>, stats |-> <<>>, emptyStats |-> <<>>,
   llikChange |-> 0, result |-> <<>>, assertFailed |-> FALSE,
   visited |-> <<>>, offset |-> 0, ind |-> 0,
   probTie |-> [one |-> 1, expOf |-> 0], eStats |-> <<>>, change |-> <<>>,
   storeChangeStats |-> FALSE, changeStats |-> <<>>, slot |-> 0,
   written |-> <<>>, sampleFor |-> <<>>]

NoRng == [held |-> 0, unheld |-> FALSE]

\* GetRNGstate() / PutRNGstate(), and a draw from the stream.
GetRNGstate(r) == [r EXCEPT !.held = @ + 1]

PutRNGstate(r) == [r EXCEPT !.held = @ - 1]

Draw(r) == [r EXCEPT !.unheld = @ \/ r.held = 0]

\* The log of tentative updates: a dyadUpdate opens an entry, holding the
\* statistics and edges it found; a toggle or a rollback is added to it.
TxOpen(u, v, ego) ==
  [id |-> tx.id + 1, u |-> u, v |-> v, ego |-> ego, res |-> <<>>,
   preStats |-> runningModel.stats, preEdges |-> net[runningModel.net].edges]

TxToggle(u, v) ==
  [tx EXCEPT !.res = Append(@, [kind |-> "toggle", u |-> u, v |-> v])]

TxRollback ==
  [tx EXCEPT !.res = Append(@, [kind |-> "rollback", u |-> tx.u, v |-> tx.v])]

\* ------------------------------------------------------------- construction

\* LatentOrderLikelihood(Model mod): model and noTieModel are clones of mod,
\* the second bound to an emptied copy of mod's network.  The constructor
\* does not recalculate noTieModel.
ConstructedNets(g) ==
  [id \in {"obs", "empty", "run"} |->
      IF id = "obs" THEN g ELSE IF id = "empty" THEN emptyGraph(g) ELSE NoNet]

ConstructedModel(g, th, hasOrd, ord) ==
  clone(NewModel("obs", th, hasOrd, ord, Statistics(g)))

ConstructedNoTieModel(g, th, hasOrd, ord) ==
  setNetwork(clone(NewModel("obs", th, hasOrd, ord, Statistics(g))), "empty")

\* The test of lines 93-94.
OrderMismatch(m, g) == m.hasVertexOrder /\ Len(m.vertexOrder) # size(g)

\* ---------------------------------------------------------- running clone

\* CloneRunning without its setNetwork: the clone stays bound to the
\* noTieModel's own network.
CloneRunningShared(noTie, nets) ==
  [nets |-> nets,
   m |-> calculate(clone(noTie), nets[noTie.net])]

\* runningModel = noTieModel->clone();
\* runningModel->setNetwork(noTieModel->network()->clone());
\* runningModel->calculate();
CloneRunning(noTie, nets) ==
  [nets |-> [nets EXCEPT !["run"] = nets[noTie.net]],
   m |-> calculate(setNetwork(clone(noTie), "run"), nets[noTie.net])]

\* ------------------------------------------------------------------ inputs

DyadRank(n, d) == d[1] * n + d[2]

\* The observed networks the engine is built on: the m first dyads in
\* row order, m = 0 .. MaxObsEdges.
ObsNets(n, directed) ==
  {{d \in AllDyads(n, directed) :
       Cardinality({e \in AllDyads(n, directed) :
                       DyadRank(n, e) < DyadRank(n, d)}) < m} :
     m \in 0..MaxObsEdges}

ThetaSet == {<<0, 0>>, <<1, -1>>}

\* No ordering covariate, or one that puts vertex 0 last and ties the rest.
Covariates(n) == {<<>>, [k \in 1..n |-> IF k = 1 THEN 1 ELSE 0]}

\* downsampleRate in halves: 0.0, 0.5, 1.0
Rates == {0, 1, 2}

\* Edge orders: sequences of 1 .. maxLen (tail, head) pairs over a vertex set.
DyadSeqs(verts, maxLen) ==
  UNION {[1..len -> {d \in verts \X verts : d[1] # d[2]}] : len \in 1..maxLen}

Tails(ds) == [k \in 1..Len(ds) |-> ds[k][1]]

Heads(ds) == [k \in 1..Len(ds) |-> ds[k][2]]

\* The dyads of a network in row order.
SortedDyads(n, directed) ==
  [k \in 1..Cardinality(AllDyads(n, directed)) |->
      CHOOSE d \in AllDyads(n, directed) :
         Cardinality({e \in AllDyads(n, directed) :
                         DyadRank(n, e) < DyadRank(n, d)}) = k - 1]

\* Edge orders that name every dyad of the network exactly once: the row
\* order under a relabelling of the vertices, each pair as it stands or
\* turned round.
CoveringOrders(n, directed) ==
  {[k \in 1..Cardinality(AllDyads(n, directed)) |->
       LET d == SortedDyads(n, directed)[k]
       IN  IF flip THEN <<At(p, d[2]), At(p, d[1])>>
                   ELSE <<At(p, d[1]), At(p, d[2])>>] :
     p \in Perms(n), flip \in BOOLEAN}

\* ------------------------------------------------- Transactional Dyad Step

\* The running network, and the observed one.
RunNet == net[runningModel.net]

ObsNet == net[model.net]

\* assert(!runningModel->network()->hasEdge(u, v)): a failed assertion
\* aborts, unless the build defines NDEBUG.
AbortChoices(u, v) == IF hasEdge(RunNet, u, v) THEN {TRUE, FALSE} ELSE {FALSE}

Aborted(lc) ==
  /\ pc' = "aborted"
  /\ loc' = [lc EXCEPT !.assertFailed = TRUE]
  /\ UNCHANGED <<net, runningModel, tx>>

\* ReplayUpdate without lines 273-276: a dyad that is not retained is left
\* alone whether or not it is tied.
ReplayUpdateSkipUnsampled(u, v, ego, he, lc, resolvePc, lcSkip, skipPc) ==
  IF lc.sample
  THEN /\ runningModel' = dyadUpdate(runningModel, RunNet, u, v)
       /\ loc' = [lc EXCEPT !.hasEdge = he,
                            !.visited = Append(@, <<u, v>>),
                            !.terms = statistics(runningModel),
                            !.newTerms = statistics(runningModel')]
       /\ tx' = TxOpen(u, v, ego)
       /\ pc' = resolvePc
       /\ UNCHANGED net
  ELSE /\ loc' = [lcSkip EXCEPT !.hasEdge = he, !.visited = Append(@, <<u, v>>)]
       /\ pc' = skipPc
       /\ UNCHANGED <<net, runningModel, tx>>

\* The replay sampler's step on dyad (u, v) with observed tie status he, up
\* to the tentative update (lines 258-261 and 273-274): lc are the locals
\* when the step starts, lcSkip the locals if the dyad takes no action.
\* loc.visited lists the dyads the call has processed so far, loc.sampleFor
\* is the dyad at which the retain decision in loc.sample was drawn.
ReplayUpdate(u, v, ego, he, lc, resolvePc, lcSkip, skipPc) ==
  IF lc.sample
  THEN /\ runningModel' = dyadUpdate(runningModel, RunNet, u, v)
       /\ loc' = [lc EXCEPT !.hasEdge = he,
                            !.visited = Append(@, <<u, v>>),
                            !.terms = statistics(runningModel),
                            !.newTerms = statistics(runningModel')]
       /\ tx' = TxOpen(u, v, ego)
       /\ pc' = resolvePc
       /\ UNCHANGED net
  ELSE IF he
  THEN /\ runningModel' = dyadUpdate(runningModel, RunNet, u, v)
       /\ loc' = [lc EXCEPT !.hasEdge = he, !.visited = Append(@, <<u, v>>)]
       /\ tx' = TxOpen(u, v, ego)
       /\ pc' = resolvePc
       /\ UNCHANGED net
  ELSE /\ loc' = [lcSkip EXCEPT !.hasEdge = he, !.visited = Append(@, <<u, v>>)]
       /\ pc' = skipPc
       /\ UNCHANGED <<net, runningModel, tx>>

\* runningModel->network()->toggle(u, v)
ToggleRunning(u, v) ==
  /\ net' = [net EXCEPT ![runningModel.net] = toggle(@, u, v)]
  /\ tx' = TxToggle(u, v)
  /\ UNCHANGED runningModel

\* runningModel->rollback()
RollbackRunning ==
  /\ runningModel' = rollback(runningModel)
  /\ tx' = TxRollback
  /\ UNCHANGED net

\* The row a retained dyad adds (lines 268-271).
PushRow(lc) ==
  [lc EXCEPT !.outcome = Append(@, lc.hasEdge),
             !.predictors = [k \in 1..Len(lc.terms) |->
                                Append(@[k], lc.newTerms[k] - lc.terms[k])]]

\* ReplayResolve without the else of lines 265-267: an untied retained dyad
\* is recorded and its tentative update left open.
ReplayResolveNoRollback(u, v, lcNext, nextPc) ==
  /\ IF loc.sample
     THEN /\ IF loc.hasEdge THEN ToggleRunning(u, v)
                            ELSE UNCHANGED <<net, runningModel, tx>>
          /\ loc' = PushRow(lcNext)
     ELSE /\ ToggleRunning(u, v)
          /\ loc' = lcNext
  /\ pc' = nextPc

\* The replay sampler's resolution of the tentative update on (u, v)
\* (lines 263-271 and 275).
ReplayResolve(u, v, lcNext, nextPc) ==
  /\ IF loc.sample
     THEN /\ IF loc.hasEdge THEN ToggleRunning(u, v) ELSE RollbackRunning
          /\ loc' = PushRow(lcNext)
     ELSE /\ ToggleRunning(u, v)
          /\ loc' = lcNext
  /\ pc' = nextPc

\* ---------------------------------------------------- modelFrameGivenOrder

\* Lines 227-246: the call, up to the loop.
modelFrameGivenOrder(downsampleRate, vert_order) ==
  /\ pc = "idle"
  /\ rng' = GetRNGstate(rng)
  /\ net' = CloneRunning(noTieModel, net).nets
  /\ runningModel' = CloneRunning(noTieModel, net).m
  /\ loc' = [NoLoc EXCEPT
               !.fn = "modelFrameGivenOrder",
               !.rate = downsampleRate,
               !.vert_order = vert_order,
               !.workingVertOrder = vert_order,
               !.terms = statistics(runningModel'),
               !.newTerms = statistics(runningModel'),
               !.predictors = [k \in 1..Len(statistics(runningModel')) |-> <<>>]]
  /\ tx' = NoTx
  /\ warned' = {}
  /\ pc' = "mfo_outer"
  /\ UNCHANGED shared

\* The shuffle run over the whole working order.
ShuffleWhole(workingVertOrder, i) ==
  shuffle(workingVertOrder, Len(workingVertOrder))

\* The shuffle with the vertex's own position taken in.
ShuffleThroughEgo(workingVertOrder, i) == shuffle(workingVertOrder, i + 1)

\* this->shuffle(workingVertOrder, i) (lines 252 and 520)
ShuffleBefore(workingVertOrder, i) == shuffle(workingVertOrder, i)

\* The tie of line 280 read the first way round again.
ReverseTieUnswapped == hasEdge(ObsNet, loc.vertex, loc.alter)

\* model->network()->hasEdge(alter, vertex) (line 280)
ReverseTie == hasEdge(ObsNet, loc.alter, loc.vertex)

\* Lines 250-252: the next vertex, then the shuffle of the positions before it.
MFO_Outer ==
  /\ pc = "mfo_outer"
  /\ loc.i < size(ObsNet)
  /\ \E w \in ShuffleBefore(loc.workingVertOrder, loc.i) :
        loc' = [loc EXCEPT !.vertex = At(loc.workingVertOrder, loc.i),
                           !.workingVertOrder = w,
                           !.j = 0]
  /\ rng' = IF loc.i > 1 THEN Draw(rng) ELSE rng
  /\ pc' = "mfo_fwd"
  /\ UNCHANGED <<net, runningModel, tx, warned, shared>>

\* Lines 253-277: the dyad (vertex, alter).
MFO_Fwd ==
  /\ pc = "mfo_fwd"
  /\ loc.j < loc.i
  /\ \E s \in SampleDraws(loc.rate) :
     \E abort \in AbortChoices(loc.vertex, At(loc.workingVertOrder, loc.j)) :
        LET lc == [loc EXCEPT !.alter = At(loc.workingVertOrder, loc.j),
                              !.sample = s,
                              !.sampleFor = <<loc.vertex,
                                              At(loc.workingVertOrder, loc.j)>>]
        IN  IF abort
            THEN Aborted(lc)
            ELSE ReplayUpdate(lc.vertex, lc.alter, lc.i,
                              hasEdge(ObsNet, lc.vertex, lc.alter),
                              lc, "mfo_fwd_resolve", lc, "mfo_rev")
  /\ rng' = Draw(rng)
  /\ UNCHANGED <<warned, shared>>

MFO_FwdResolve ==
  /\ pc = "mfo_fwd_resolve"
  /\ ReplayResolve(loc.vertex, loc.alter, loc, "mfo_rev")
  /\ UNCHANGED <<rng, warned, shared>>

\* Lines 279-301: on a directed network, the dyad (alter, vertex).
MFO_Rev ==
  /\ pc = "mfo_rev"
  /\ IF isDirected(RunNet)
     THEN ReplayUpdate(loc.alter, loc.vertex, loc.i, ReverseTie,
                       loc, "mfo_rev_resolve",
                       [loc EXCEPT !.j = @ + 1], "mfo_fwd")
     ELSE /\ loc' = [loc EXCEPT !.j = @ + 1]
          /\ pc' = "mfo_fwd"
          /\ UNCHANGED <<net, runningModel, tx>>
  /\ UNCHANGED <<rng, warned, shared>>

MFO_RevResolve ==
  /\ pc = "mfo_rev_resolve"
  /\ ReplayResolve(loc.alter, loc.vertex, [loc EXCEPT !.j = @ + 1], "mfo_fwd")
  /\ UNCHANGED <<rng, warned, shared>>

\* Line 253 when j reaches i: on to the next vertex.
MFO_NextVertex ==
  /\ pc = "mfo_fwd"
  /\ loc.j >= loc.i
  /\ loc' = [loc EXCEPT !.i = @ + 1]
  /\ pc' = "mfo_outer"
  /\ UNCHANGED <<net, runningModel, tx, rng, warned, shared>>

\* Lines 307-311: the result.
MFO_Return ==
  /\ pc = "mfo_outer"
  /\ loc.i >= size(ObsNet)
  /\ rng' = PutRNGstate(rng)
  /\ loc' = [loc EXCEPT !.result = [outcome |-> loc.outcome,
                                    samples |-> loc.predictors]]
  /\ pc' = "done"
  /\ UNCHANGED <<net, runningModel, tx, warned, shared>>

\* ------------------------------------------------ generateNetworkWithOrder

\* A probability 1 / (one + e^expOf), one being 0 or 1.
\* 1.0 / exp(-llikChange): the link of line 528 without its "1.0 +".
ProbTieUnnormalised(llikChange) == [one |-> 0, expOf |-> 0 - llikChange]

\* probTie = 1.0 / (1.0 + exp(-llikChange)) (lines 528, 565, 685)
ProbTie(llikChange) == [one |-> 1, expOf |-> 0 - llikChange]

\* The outcomes of Rf_runif(0.0, 1.0) < probTie: the draw lies strictly
\* between 0 and 1.
TieDraws(probTie) ==
  IF probTie.one = 0 /\ probTie.expOf <= 0 THEN {TRUE} ELSE BOOLEAN

\* A sum of products diff * probTie, kept as the sum of the diffs for each
\* probTie that occurs in it: sum + diff * probTie.
AddWeighted(sum, diff, probTie) ==
  IF probTie \in DOMAIN sum THEN [sum EXCEPT ![probTie] = @ + diff]
                             ELSE sum @@ (probTie :> diff)

\* The sum with no product in it: 0.0.
NoSum == [x \in {} |-> 0]

\* The table write of lines 549-555, 583-585 and 705: changeStats[slot] =
\* change.  loc.written lists the slots written.
StoreChange(lc) ==
  IF lc.storeChangeStats
  THEN [lc EXCEPT !.changeStats = IF lc.slot + 1 \in DOMAIN @
                                  THEN Put(@, lc.slot, lc.change) ELSE @,
                  !.written = Append(@, lc.slot)]
  ELSE lc

\* The generative sampler's step on dyad (u, v) up to the tentative update
\* (lines 524-528): the log-likelihood before, the update, the statistics
\* and the log-likelihood change after it.
GenerateUpdate(u, v, ego, lc, resolvePc) ==
  /\ runningModel' = dyadUpdate(runningModel, RunNet, u, v)
  /\ loc' = [lc EXCEPT !.visited = Append(@, <<u, v>>),
                       !.newTerms = statistics(runningModel'),
                       !.llikChange = logLik(runningModel') - logLik(runningModel),
                       !.probTie = ProbTie(logLik(runningModel')
                                             - logLik(runningModel))]
  /\ tx' = TxOpen(u, v, ego)
  /\ pc' = resolvePc
  /\ UNCHANGED net

\* Accumulate without the test of line 544.
AccumulateAlways(lc, tie) ==
  [lc EXCEPT !.hasEdge = tie,
             !.eStats = [m \in 1..Len(lc.terms) |->
                            AddWeighted(@[m], lc.newTerms[m] - lc.terms[m],
                                        lc.probTie)],
             !.change = VecSub(lc.newTerms, lc.terms),
             !.stats = VecAdd(@, VecSub(lc.newTerms, lc.terms)),
             !.terms = VecAdd(@, VecSub(lc.newTerms, lc.terms))]

\* What the loop of lines 540-548 leaves in eStats, change, stats and terms.
Accumulate(lc, tie) ==
  [lc EXCEPT !.hasEdge = tie,
             !.eStats = [m \in 1..Len(lc.terms) |->
                            AddWeighted(@[m], lc.newTerms[m] - lc.terms[m],
                                        lc.probTie)],
             !.change = VecSub(lc.newTerms, lc.terms),
             !.stats = IF tie THEN VecAdd(@, VecSub(lc.newTerms, lc.terms)) ELSE @,
             !.terms = IF tie THEN VecAdd(@, VecSub(lc.newTerms, lc.terms)) ELSE @]

\* GenerateResolve without the else of line 533: the rollback runs after
\* the toggle too.
GenerateResolveNoElse(u, v, lcNext, nextPc) ==
  /\ \E tie \in TieDraws(loc.probTie) :
        /\ net' = IF tie THEN [net EXCEPT ![runningModel.net] = toggle(@, u, v)]
                         ELSE net
        /\ runningModel' = rollback(runningModel)
        /\ tx' = [tx EXCEPT !.res =
                      (IF tie THEN <<[kind |-> "toggle", u |-> u, v |-> v]>>
                              ELSE <<>>)
                      \o <<[kind |-> "rollback", u |-> tx.u, v |-> tx.v]>>]
        /\ loc' = StoreChange(Accumulate(lcNext, tie))
  /\ pc' = nextPc

\* The draw against probTie and the resolution (lines 529-555): the
\* toggle or the rollback, the sums, the table write.
GenerateResolve(u, v, lcNext, nextPc) ==
  /\ \E tie \in TieDraws(loc.probTie) :
        /\ IF tie THEN ToggleRunning(u, v) ELSE RollbackRunning
        /\ loc' = StoreChange(Accumulate(lcNext, tie))
  /\ pc' = nextPc

\* Lines 493-502: Rcpp::List changeStats(1), or with storeChangeStats a
\* list of e = n*(n-1) entries, half as many on an undirected network.
NewChangeStats(g, storeChangeStats) ==
  IF storeChangeStats
  THEN [k \in 1..(IF isDirected(g) THEN size(g) * (size(g) - 1)
                                    ELSE (size(g) * (size(g) - 1)) \div 2) |-> <<>>]
  ELSE << <<>> >>

\* The slot of line 551 shifted by one place.
ForwardSlotShifted(directedGraph, i, j) ==
  IF directedGraph THEN (i - 1) * i + 2 * j + 1
                   ELSE ((i - 1) * i) \div 2 + j + 1

\* Lines 551 and 553: the slot of the dyad (vertex, alter) of steps i, j.
ForwardSlot(directedGraph, i, j) ==
  IF directedGraph THEN (i - 1) * i + 2 * j
                   ELSE ((i - 1) * i) \div 2 + j

\* Line 584: the slot of the dyad (alter, vertex) of steps i, j.
ReverseSlot(i, j) == (i - 1) * i + 2 * j + 1

\* Lines 482-516: the call, up to the loop.
generateNetworkWithOrder(vert_order, storeChangeStats) ==
  /\ pc = "idle"
  /\ rng' = GetRNGstate(rng)
  /\ net' = CloneRunning(noTieModel, net).nets
  /\ runningModel' = CloneRunning(noTieModel, net).m
  /\ loc' = [NoLoc EXCEPT
               !.fn = "generateNetworkWithOrder",
               !.vert_order = vert_order,
               !.workingVertOrder = vert_order,
               !.storeChangeStats = storeChangeStats,
               !.changeStats = NewChangeStats(net[noTieModel.net],
                                              storeChangeStats),
               !.eStats = [m \in 1..Len(model.thetas) |-> NoSum],
               !.stats = Zeros(Len(model.thetas)),
               !.terms = statistics(runningModel'),
               !.newTerms = statistics(runningModel'),
               !.emptyStats = statistics(runningModel')]
  /\ tx' = NoTx
  /\ warned' = {}
  /\ pc' = "gno_outer"
  /\ UNCHANGED shared

\* Lines 518-520
GNO_Outer ==
  /\ pc = "gno_outer"
  /\ loc.i < size(ObsNet)
  /\ \E w \in ShuffleBefore(loc.workingVertOrder, loc.i) :
        loc' = [loc EXCEPT !.vertex = At(loc.workingVertOrder, loc.i),
                           !.workingVertOrder = w,
                           !.j = 0]
  /\ rng' = IF loc.i > 1 THEN Draw(rng) ELSE rng
  /\ pc' = "gno_fwd"
  /\ UNCHANGED <<net, runningModel, tx, warned, shared>>

\* Lines 521-528: the dyad (vertex, alter).
GNO_Fwd ==
  /\ pc = "gno_fwd"
  /\ loc.j < loc.i
  /\ \E abort \in AbortChoices(loc.vertex, At(loc.workingVertOrder, loc.j)) :
        LET lc == [loc EXCEPT !.alter = At(loc.workingVertOrder, loc.j)]
        IN  IF abort
            THEN Aborted(lc)
            ELSE GenerateUpdate(lc.vertex, lc.alter, lc.i, lc, "gno_fwd_resolve")
  /\ UNCHANGED <<rng, warned, shared>>

\* Lines 529-548
GNO_FwdResolve ==
  /\ pc = "gno_fwd_resolve"
  /\ GenerateResolve(loc.vertex, loc.alter,
                     [loc EXCEPT !.slot = ForwardSlot(isDirected(RunNet),
                                                      loc.i, loc.j)],
                     "gno_rev")
  /\ rng' = Draw(rng)
  /\ UNCHANGED <<warned, shared>>

\* Lines 559-565: on a directed network, the dyad (alter, vertex).
GNO_Rev ==
  /\ pc = "gno_rev"
  /\ IF isDirected(RunNet)
     THEN \E abort \in AbortChoices(loc.alter, loc.vertex) :
             IF abort
             THEN Aborted(loc)
             ELSE GenerateUpdate(loc.alter, loc.vertex, loc.i, loc,
                                 "gno_rev_resolve")
     ELSE /\ loc' = [loc EXCEPT !.j = @ + 1]
          /\ pc' = "gno_fwd"
          /\ UNCHANGED <<net, runningModel, tx>>
  /\ UNCHANGED <<rng, warned, shared>>

\* Lines 566-582
GNO_RevResolve ==
  /\ pc = "gno_rev_resolve"
  /\ GenerateResolve(loc.alter, loc.vertex,
                     [loc EXCEPT !.slot = ReverseSlot(loc.i, loc.j),
                                 !.j = @ + 1],
                     "gno_fwd")
  /\ rng' = Draw(rng)
  /\ UNCHANGED <<warned, shared>>

\* Line 521 when j reaches i
GNO_NextVertex ==
  /\ pc = "gno_fwd"
  /\ loc.j >= loc.i
  /\ loc' = [loc EXCEPT !.i = @ + 1]
  /\ pc' = "gno_outer"
  /\ UNCHANGED <<net, runningModel, tx, rng, warned, shared>>

\* Line 589 without the loop of lines 590-591: rankOrder = vert_order.
RankOrderCopied(vert_order) == vert_order

\* rankOrder[vert_order[i]] = i (lines 589-591)
RankOrder(vert_order) ==
  [k \in 1..Len(vert_order) |->
      CHOOSE i \in 0..(Len(vert_order) - 1) :
         /\ At(vert_order, i) = k - 1
         /\ \A h \in (i + 1)..(Len(vert_order) - 1) : At(vert_order, h) # k - 1]

\* What the generative samplers return (lines 596-603).
GenerateResult(lc) ==
  [network |-> RunNet,
   order |-> RankOrder(lc.vert_order),
   emptyNetworkStats |-> lc.emptyStats,
   stats |-> lc.stats,
   expectedStats |-> lc.eStats,
   changeStats |-> IF lc.storeChangeStats THEN lc.changeStats ELSE <<>>]

\* Lines 589-603
GNO_Return ==
  /\ pc = "gno_outer"
  /\ loc.i >= size(ObsNet)
  /\ rng' = PutRNGstate(rng)
  /\ loc' = [loc EXCEPT !.result = GenerateResult(loc)]
  /\ pc' = "done"
  /\ UNCHANGED <<net, runningModel, tx, warned, shared>>

\* ------------------------------------------------------ edge-order helpers

\* A vertex index the network has.
InRange(n, x) == 0 <= x /\ x < n

\* A dyad an entry of the edge order names: two different vertices of the
\* network.  What the network classes do with an index that is no vertex,
\* or with a vertex paired with itself, is not defined: the call's course
\* from there on is "undefined".
ValidDyad(u, v) ==
  InRange(size(RunNet), u) /\ InRange(size(RunNet), v) /\ u # v

Undefined(lc) ==
  /\ pc' = "undefined"
  /\ loc' = lc
  /\ UNCHANGED <<net, runningModel, tx>>

MaxOf(vec) == CHOOSE x \in Range(vec) : \A y \in Range(vec) : y <= x

\* Lines 623-628 and 753-758: the message on an index past the last vertex.
RangeMessage(n, perm_heads, perm_tails) ==
  IF MaxOf(perm_tails) > n - 1 \/ MaxOf(perm_heads) > n - 1
  THEN {"The perm has vertices that don't exist"} ELSE {}

\* Lines 748-751
LengthMessage(e, perm_heads, perm_tails) ==
  IF Len(perm_heads) # e \/ Len(perm_tails) # e
  THEN {"The perm is the wrong length"} ELSE {}

\* long e = n*(n-1); if(!isDirected()) e = e/2;
MaxDyads(g) == IF isDirected(g) THEN size(g) * (size(g) - 1)
                                ELSE (size(g) * (size(g) - 1)) \div 2

\* Lines 360-365 and 675-680: the scan finds the position of the vertex and
\* stores it in an actorIndex declared inside the loop body; the
\* actorIndex handed to dyadUpdate is the outer one, which it leaves alone.
ScanDeclaring(actorIndex, vert_order, n, vertex) == actorIndex

\* Lines 786-791: the scan assigns the position to actorIndex.
ScanAssigning(actorIndex, vert_order, n, vertex) ==
  IF ScanFor(vert_order, n, vertex) = {} THEN actorIndex
  ELSE CHOOSE k \in ScanFor(vert_order, n, vertex) : TRUE

\* Whether building the unused vertex order draws from the random stream.
OrderDraws(m, n) == m.hasVertexOrder \/ n > 1

\* ------------------------------------------------ modelFrameGivenEdgeOrder

\* Lines 314-348: the call, up to the loop.
modelFrameGivenEdgeOrder(downsampleRate, perm_heads, perm_tails) ==
  /\ pc = "idle"
  /\ rng' = Draw(GetRNGstate(rng))
  /\ net' = CloneRunning(noTieModel, net).nets
  /\ runningModel' = CloneRunning(noTieModel, net).m
  /\ \E vo \in UnusedVertOrder(model, size(ObsNet)) :
        loc' = [NoLoc EXCEPT
                  !.fn = "modelFrameGivenEdgeOrder",
                  !.rate = downsampleRate,
                  !.perm_heads = perm_heads,
                  !.perm_tails = perm_tails,
                  !.vert_order = vo,
                  !.terms = statistics(runningModel'),
                  !.newTerms = statistics(runningModel'),
                  !.predictors =
                      [k \in 1..Len(statistics(runningModel')) |-> <<>>]]
  /\ tx' = NoTx
  /\ warned' = {}
  /\ pc' = "mfe_fwd"
  /\ UNCHANGED shared

\* Lines 349-386: the dyad (perm_tails[i], perm_heads[i]).
MFE_Fwd ==
  /\ pc = "mfe_fwd"
  /\ loc.i < Len(loc.perm_heads)
  /\ \E s \in SampleDraws(loc.rate) :
        LET lc == [loc EXCEPT !.vertex = At(loc.perm_tails, loc.i),
                              !.alter = At(loc.perm_heads, loc.i),
                              !.sample = s,
                              !.sampleFor = <<At(loc.perm_tails, loc.i),
                                              At(loc.perm_heads, loc.i)>>,
                              !.actorIndex =
                                  ScanDeclaring(0, loc.vert_order, size(ObsNet),
                                                At(loc.perm_tails, loc.i))]
        IN  IF ~ValidDyad(lc.vertex, lc.alter)
            THEN Undefined(lc)
            ELSE \E abort \in AbortChoices(lc.vertex, lc.alter) :
                    IF abort
                    THEN Aborted(lc)
                    ELSE ReplayUpdate(lc.vertex, lc.alter, lc.actorIndex,
                                      hasEdge(ObsNet, lc.vertex, lc.alter),
                                      lc, "mfe_fwd_resolve", lc, "mfe_rev")
  /\ rng' = Draw(rng)
  /\ UNCHANGED <<warned, shared>>

MFE_FwdResolve ==
  /\ pc = "mfe_fwd_resolve"
  /\ ReplayResolve(loc.vertex, loc.alter, loc, "mfe_rev")
  /\ UNCHANGED <<rng, warned, shared>>

\* Lines 388-410: on a directed network, the dyad the other way round.
MFE_Rev ==
  /\ pc = "mfe_rev"
  /\ IF isDirected(RunNet)
     THEN ReplayUpdate(loc.alter, loc.vertex, loc.actorIndex,
                       hasEdge(ObsNet, loc.alter, loc.vertex),
                       loc, "mfe_rev_resolve",
                       [loc EXCEPT !.i = @ + 1], "mfe_fwd")
     ELSE /\ loc' = [loc EXCEPT !.i = @ + 1]
          /\ pc' = "mfe_fwd"
          /\ UNCHANGED <<net, runningModel, tx>>
  /\ UNCHANGED <<rng, warned, shared>>

MFE_RevResolve ==
  /\ pc = "mfe_rev_resolve"
  /\ ReplayResolve(loc.alter, loc.vertex, [loc EXCEPT !.i = @ + 1], "mfe_fwd")
  /\ UNCHANGED <<rng, warned, shared>>

\* Lines 413-417
MFE_Return ==
  /\ pc = "mfe_fwd"
  /\ loc.i >= Len(loc.perm_heads)
  /\ rng' = PutRNGstate(rng)
  /\ loc' = [loc EXCEPT !.result = [outcome |-> loc.outcome,
                                    samples |-> loc.predictors]]
  /\ pc' = "done"
  /\ UNCHANGED <<net, runningModel, tx, warned, shared>>

\* -------------------------------------------- generateNetworkWithEdgeOrder

\* Lines 608-664: the call, up to the loop.
generateNetworkWithEdgeOrder(perm_heads, perm_tails) ==
  /\ pc = "idle"
  /\ rng' = Draw(GetRNGstate(rng))
  /\ warned' = RangeMessage(size(ObsNet), perm_heads, perm_tails)
  /\ net' = CloneRunning(noTieModel, net).nets
  /\ runningModel' = CloneRunning(noTieModel, net).m
  /\ \E vo \in UnusedVertOrder(model, size(ObsNet)) :
        loc' = [NoLoc EXCEPT
                  !.fn = "generateNetworkWithEdgeOrder",
                  !.perm_heads = perm_heads,
                  !.perm_tails = perm_tails,
                  !.vert_order = vo,
                  !.actorIndex = 1,
                  !.storeChangeStats = TRUE,
                  !.changeStats = [k \in 1..MaxDyads(ObsNet) |-> <<>>],
                  !.eStats = [m \in 1..Len(model.thetas) |-> NoSum],
                  !.stats = Zeros(Len(model.thetas)),
                  !.terms = statistics(runningModel'),
                  !.newTerms = statistics(runningModel'),
                  !.emptyStats = statistics(runningModel')]
  /\ tx' = NoTx
  /\ pc' = "gne_step"
  /\ UNCHANGED shared

\* Lines 665-685: the dyad (perm_tails[i], perm_heads[i]).
GNE_Step ==
  /\ pc = "gne_step"
  /\ loc.i < Len(loc.perm_tails)
  /\ LET lc == [loc EXCEPT !.vertex = At(loc.perm_tails, loc.i),
                           !.alter = At(loc.perm_heads, loc.i),
                           !.actorIndex =
                               ScanDeclaring(loc.actorIndex, loc.vert_order,
                                             size(ObsNet),
                                             At(loc.perm_tails, loc.i))]
     IN  IF ~ValidDyad(lc.vertex, lc.alter)
         THEN Undefined(lc)
         ELSE GenerateUpdate(lc.vertex, lc.alter, lc.actorIndex, lc,
                             "gne_resolve")
  /\ UNCHANGED <<rng, warned, shared>>

\* Lines 686-705: changeStats[i] = change is a write into a list of e
\* entries; past its end the call's course is "undefined".
GNE_Resolve ==
  /\ pc = "gne_resolve"
  /\ GenerateResolve(loc.vertex, loc.alter,
                     [loc EXCEPT !.slot = loc.i, !.i = @ + 1],
                     IF loc.i < MaxDyads(ObsNet) THEN "gne_step" ELSE "undefined")
  /\ rng' = Draw(rng)
  /\ UNCHANGED <<warned, shared>>

\* Lines 707-721
GNE_Return ==
  /\ pc = "gne_step"
  /\ loc.i >= Len(loc.perm_tails)
  /\ rng' = PutRNGstate(rng)
  /\ loc' = [loc EXCEPT !.result = GenerateResult(loc)]
  /\ pc' = "done"
  /\ UNCHANGED <<net, runningModel, tx, warned, shared>>

\* --------------------------------------------------------- calcChangeStats

\* Lines 726-773: the call, up to the loop.  The random stream is not
\* acquired.
calcChangeStats(perm_heads, perm_tails) ==
  /\ pc = "idle"
  /\ rng' = IF OrderDraws(model, size(ObsNet)) THEN Draw(rng) ELSE rng
  /\ warned' = LengthMessage(MaxDyads(ObsNet), perm_heads, perm_tails)
                 \cup RangeMessage(size(ObsNet), perm_heads, perm_tails)
  /\ net' = CloneRunning(noTieModel, net).nets
  /\ runningModel' = CloneRunning(noTieModel, net).m
  /\ \E vo \in UnusedVertOrder(model, size(ObsNet)) :
        loc' = [NoLoc EXCEPT
                  !.fn = "calcChangeStats",
                  !.perm_heads = perm_heads,
                  !.perm_tails = perm_tails,
                  !.vert_order = vo,
                  !.actorIndex = 1,
                  !.stats = Zeros(Len(model.thetas)),
                  !.terms = statistics(runningModel'),
                  !.newTerms = statistics(runningModel'),
                  !.emptyStats = statistics(runningModel'),
                  !.result = [k \in 1..MaxDyads(ObsNet) |-> <<>>]]
  /\ tx' = NoTx
  /\ pc' = "ccs_step"
  /\ UNCHANGED shared

\* Lines 778-799: dyad i of the order, for i below e; an order shorter than
\* e is read past its end.
CCS_Step ==
  /\ pc = "ccs_step"
  /\ loc.i < MaxDyads(ObsNet)
  /\ IF loc.i >= Len(loc.perm_tails) \/ loc.i >= Len(loc.perm_heads)
     THEN Undefined(loc)
     ELSE LET lc == [loc EXCEPT !.vertex = At(loc.perm_tails, loc.i),
                                !.alter = At(loc.perm_heads, loc.i),
                                !.actorIndex =
                                    ScanAssigning(loc.actorIndex, loc.vert_order,
                                                  size(ObsNet),
                                                  At(loc.perm_tails, loc.i))]
          IN  IF ~ValidDyad(lc.vertex, lc.alter)
              THEN Undefined(lc)
              ELSE \E abort \in AbortChoices(lc.vertex, lc.alter) :
                      IF abort
                      THEN Aborted(lc)
                      ELSE /\ runningModel' =
                                 dyadUpdate(runningModel, RunNet, lc.vertex, lc.alter)
                           /\ loc' = [lc EXCEPT
                                        !.visited = Append(@, <<lc.vertex, lc.alter>>),
                                        !.result =
                                           Put(@, lc.i,
                                               VecSub(statistics(runningModel'),
                                                      statistics(runningModel)))]
                           /\ tx' = TxOpen(lc.vertex, lc.alter, lc.actorIndex)
                           /\ pc' = "ccs_resolve"
                           /\ UNCHANGED net
  /\ UNCHANGED <<rng, warned, shared>>

\* The tie of line 800 read from the running network.
ObservedTieFromRunning == hasEdge(RunNet, loc.vertex, loc.alter)

\* model->network()->hasEdge(vertex, alter) (line 800)
ObservedTie == hasEdge(ObsNet, loc.vertex, loc.alter)

\* Lines 800-802: commit if the observed network has the edge.
CCS_Resolve ==
  /\ pc = "ccs_resolve"
  /\ IF ObservedTie
     THEN ToggleRunning(loc.vertex, loc.alter)
     ELSE RollbackRunning
  /\ loc' = [loc EXCEPT !.i = @ + 1]
  /\ pc' = "ccs_step"
  /\ UNCHANGED <<rng, warned, shared>>

\* Line 804
CCS_Return ==
  /\ pc = "ccs_step"
  /\ loc.i >= MaxDyads(ObsNet)
  /\ pc' = "done"
  /\ UNCHANGED <<net, runningModel, loc, tx, rng, warned, shared>>

\* ------------------------------------------------------------ the engine

\* The caller takes the result (or the abort); the call's clone is dropped.
Return ==
  /\ pc \in {"done", "aborted", "undefined"}
  /\ pc' = "idle"
  /\ loc' = NoLoc
  /\ tx' = NoTx
  /\ rng' = NoRng
  /\ warned' = {}
  /\ runningModel' = noTieModel
  /\ net' = [net EXCEPT !["run"] = NoNet]
  /\ UNCHANGED shared

\* The engine as constructed on a model whose ordering covariate, if it has
\* one, has an entry per vertex.
Init ==
  \E n \in 2..N, directed \in BOOLEAN :
  \E edges \in ObsNets(n, directed), th \in ThetaSet, ord \in Covariates(n) :
     LET g == [n |-> n, directed |-> directed, edges |-> edges]
     IN  /\ net = ConstructedNets(g)
         /\ model = ConstructedModel(g, th, ord # <<>>, ord)
         /\ noTieModel = ConstructedNoTieModel(g, th, ord # <<>>, ord)
         /\ runningModel = noTieModel
         /\ pc = "idle"
         /\ loc = NoLoc
         /\ tx = NoTx
         /\ rng = NoRng
         /\ failed = FALSE
         /\ warned = {}
         /\ caller = NoCaller

CallModelFrameGivenOrder ==
  /\ pc = "idle"
  /\ \E r \in Rates, vo \in Perms(size(ObsNet)) : modelFrameGivenOrder(r, vo)

CallGenerateNetworkWithOrder ==
  /\ pc = "idle"
  /\ \E vo \in Perms(size(ObsNet)), storeChangeStats \in BOOLEAN :
        generateNetworkWithOrder(vo, storeChangeStats)

CallModelFrameGivenEdgeOrder ==
  /\ pc = "idle"
  /\ \E r \in Rates, ds \in DyadSeqs(0..(size(ObsNet) - 1), MaxEdgeOrderLen) :
        modelFrameGivenEdgeOrder(r, Heads(ds), Tails(ds))

CallGenerateNetworkWithEdgeOrder ==
  /\ pc = "idle"
  /\ \E ds \in DyadSeqs(0..(size(ObsNet) - 1), MaxEdgeOrderLen) :
        generateNetworkWithEdgeOrder(Heads(ds), Tails(ds))

CallCalcChangeStats ==
  /\ pc = "idle"
  /\ \E ds \in CoveringOrders(size(ObsNet), isDirected(ObsNet)) :
        calcChangeStats(Heads(ds), Tails(ds))

Next ==
  \/ CallModelFrameGivenOrder
  \/ CallModelFrameGivenEdgeOrder
  \/ MFE_Fwd
  \/ MFE_FwdResolve
  \/ MFE_Rev
  \/ MFE_RevResolve
  \/ MFE_Return
  \/ CallGenerateNetworkWithEdgeOrder
  \/ GNE_Step
  \/ GNE_Resolve
  \/ GNE_Return
  \/ CallCalcChangeStats
  \/ CCS_Step
  \/ CCS_Resolve
  \/ CCS_Return
  \/ CallGenerateNetworkWithOrder
  \/ GNO_Outer
  \/ GNO_Fwd
  \/ GNO_FwdResolve
  \/ GNO_Rev
  \/ GNO_RevResolve
  \/ GNO_NextVertex
  \/ GNO_Return
  \/ MFO_Outer
  \/ MFO_Fwd
  \/ MFO_FwdResolve
  \/ MFO_Rev
  \/ MFO_RevResolve
  \/ MFO_NextVertex
  \/ MFO_Return
  \/ Return

Spec == Init /\ [][Next]_vars

\* ------------------------------------------- configuring the engine's model

\* A Model no network is bound to: what the members hold before a model is
\* given.
NullModel == NewModel("obs", <<>>, FALSE, <<>>, <<>>)

NullNets == [id \in {"obs", "empty", "run"} |-> NoNet]

\* Ordering covariates a caller can attach to a model of an n-vertex
\* network: none, one entry per vertex, one entry too few, one too many.
GivenCovariates(n) ==
  Covariates(n) \cup {[k \in 1..(n - 1) |-> 0], [k \in 1..(n + 1) |-> 0]}

\* LatentOrderLikelihood(Model mod) (lines 88-95): the members are assigned,
\* then the length of the ordering covariate is checked; on Rf_error no
\* engine comes into being.
Construct(g, th, ord) ==
  /\ pc = "unbuilt"
  /\ net' = ConstructedNets(g)
  /\ model' = ConstructedModel(g, th, ord # <<>>, ord)
  /\ noTieModel' = ConstructedNoTieModel(g, th, ord # <<>>, ord)
  /\ runningModel' = noTieModel'
  /\ failed' = OrderMismatch(model', g)
  /\ pc' = IF OrderMismatch(model', g) THEN "unbuilt" ELSE "idle"
  /\ UNCHANGED <<loc, tx, rng, warned, caller>>

\* setModel(mod) (lines 121-127)
setModel(g, th, ord) ==
  /\ pc = "idle"
  /\ net' = ConstructedNets(g)
  /\ model' = ConstructedModel(g, th, ord # <<>>, ord)
  /\ noTieModel' = calculate(ConstructedNoTieModel(g, th, ord # <<>>, ord),
                             emptyGraph(g))
  /\ runningModel' = noTieModel'
  /\ failed' = FALSE
  /\ UNCHANGED <<pc, loc, tx, rng, warned, caller>>

\* setThetas(newThetas) (lines 130-133)
setThetas(newThetas) ==
  /\ pc = "idle"
  /\ model' = setThetasOf(model, newThetas)
  /\ noTieModel' = setThetasOf(noTieModel, newThetas)
  /\ runningModel' = noTieModel'
  /\ failed' = FALSE
  /\ UNCHANGED <<net, pc, loc, tx, rng, warned, caller>>

\* Before LatentOrderLikelihood(Model mod) is called.
InitConfig ==
  /\ net = NullNets
  /\ model = NullModel
  /\ noTieModel = NullModel
  /\ runningModel = NullModel
  /\ pc = "unbuilt"
  /\ loc = NoLoc
  /\ tx = NoTx
  /\ rng = NoRng
  /\ failed = FALSE
  /\ warned = {}
  /\ caller = NoCaller

CallConstruct ==
  /\ pc = "unbuilt"
  /\ \E n \in 2..N, directed \in BOOLEAN :
     \E edges \in ObsNets(n, directed), th \in ThetaSet,
        ord \in GivenCovariates(n) :
        Construct([n |-> n, directed |-> directed, edges |-> edges], th, ord)

CallSetModel ==
  /\ pc = "idle"
  /\ \E n \in 2..N, directed \in BOOLEAN :
     \E edges \in ObsNets(n, directed), th \in ThetaSet,
        ord \in GivenCovariates(n) :
        setModel([n |-> n, directed |-> directed, edges |-> edges], th, ord)

CallSetThetas ==
  /\ pc = "idle"
  /\ \E th \in ThetaSet : setThetas(th)

NextConfig ==
  \/ CallConstruct
  \/ CallSetModel
  \/ CallSetThetas

SpecConfig == InitConfig /\ [][NextConfig]_vars

\* -------------------------------- edge orders naming vertices out of range

\* Edge orders over the indices -1 .. n: one below the first vertex, the
\* vertices, one past the last.
GivenEdgeOrders(n) == DyadSeqs((0 - 1)..n, MaxEdgeOrderLen)

CallModelFrameGivenAnyEdgeOrder ==
  /\ pc = "idle"
  /\ \E r \in Rates, ds \in GivenEdgeOrders(size(ObsNet)) :
        modelFrameGivenEdgeOrder(r, Heads(ds), Tails(ds))

CallGenerateNetworkWithAnyEdgeOrder ==
  /\ pc = "idle"
  /\ \E ds \in GivenEdgeOrders(size(ObsNet)) :
        generateNetworkWithEdgeOrder(Heads(ds), Tails(ds))

CallCalcChangeStatsWithAnyEdgeOrder ==
  /\ pc = "idle"
  /\ \E ds \in GivenEdgeOrders(size(ObsNet)) :
        calcChangeStats(Heads(ds), Tails(ds))

NextRange ==
  \/ CallModelFrameGivenAnyEdgeOrder
  \/ MFE_Fwd
  \/ MFE_FwdResolve
  \/ MFE_Rev
  \/ MFE_RevResolve
  \/ MFE_Return
  \/ CallGenerateNetworkWithAnyEdgeOrder
  \/ GNE_Step
  \/ GNE_Resolve
  \/ GNE_Return
  \/ CallCalcChangeStatsWithAnyEdgeOrder
  \/ CCS_Step
  \/ CCS_Resolve
  \/ CCS_Return
  \/ Return

SpecRange == Init /\ [][NextRange]_vars

\* --------------------------------------------- generateOrder and shuffle

\* Ordering covariates: one entry in 0 .. MaxCovariate per vertex.
AnyCovariates(n) == [1..n -> 0..MaxCovariate]

\* Vectors handed to shuffle: n entries, repeats allowed.
AnyVectors(n) == [1..n -> 0..(n - 1)]

\* The engine on a model with an ordering covariate of any shape.
InitOrder ==
  \E n \in 2..N, directed \in BOOLEAN :
  \E ord \in AnyCovariates(n) :
     LET g == [n |-> n, directed |-> directed, edges |-> {}]
     IN  /\ net = ConstructedNets(g)
         /\ model = ConstructedModel(g, <<0, 0>>, TRUE, ord)
         /\ noTieModel = ConstructedNoTieModel(g, <<0, 0>>, TRUE, ord)
         /\ runningModel = noTieModel
         /\ pc = "idle"
         /\ loc = NoLoc
         /\ tx = NoTx
         /\ rng = NoRng
         /\ failed = FALSE
         /\ warned = {}
         /\ caller = NoCaller

\* this->generateOrder(vertices, model->getVertexOrder()) (lines 66-78)
CallGenerateOrder ==
  /\ pc = "idle"
  /\ \E vertexOrder \in generateOrder(model.vertexOrder) :
        loc' = [NoLoc EXCEPT !.fn = "generateOrder", !.vert_order = vertexOrder]
  /\ rng' = Draw(rng)
  /\ pc' = "done"
  /\ UNCHANGED <<net, runningModel, tx, warned, shared>>

\* this->shuffle(vec, offset) (line 52), offset in 0 .. vec.size(): loc.vert_order
\* keeps the vector as handed in, loc.workingVertOrder is the one shuffled.
CallShuffle ==
  /\ pc = "idle"
  /\ \E vec \in AnyVectors(size(ObsNet)), offset \in 0..size(ObsNet) :
        loc' = [NoLoc EXCEPT !.fn = "shuffle", !.vert_order = vec,
                             !.workingVertOrder = vec, !.offset = offset]
  /\ pc' = "shuffle"
  /\ UNCHANGED <<net, runningModel, tx, rng, warned, shared>>

\* Lines 53-59: one pass of the loop.
ShuffleStep ==
  /\ pc = "shuffle"
  /\ loc.i < loc.offset - 1
  /\ \E ind \in SwapIndices(loc.i, loc.offset) :
        loc' = [loc EXCEPT !.workingVertOrder = Swap(@, loc.i, ind),
                           !.ind = ind,
                           !.i = @ + 1]
  /\ rng' = Draw(rng)
  /\ UNCHANGED <<net, runningModel, pc, tx, warned, shared>>

\* Line 53 when i reaches offset - 1.
ShuffleReturn ==
  /\ pc = "shuffle"
  /\ loc.i >= loc.offset - 1
  /\ pc' = "done"
  /\ UNCHANGED <<net, runningModel, loc, tx, rng, warned, shared>>

NextOrder ==
  \/ CallGenerateOrder
  \/ CallShuffle
  \/ ShuffleStep
  \/ ShuffleReturn
  \/ Return

SpecOrder == InitOrder /\ [][NextOrder]_vars

\* --------------------------------------------------- variationalModelFrame

\* The sampling call made by a public entry point has returned: its result
\* is taken and its clone dropped; the random stream is as the call left it.
TakeResult ==
  /\ pc' = "idle"
  /\ loc' = NoLoc
  /\ tx' = NoTx
  /\ warned' = {}
  /\ runningModel' = noTieModel
  /\ net' = [net EXCEPT !["run"] = NoNet]
  /\ UNCHANGED <<rng, model, noTieModel, failed>>

\* Lines 147-150: the call, up to the loop.
variationalModelFrame(nOrders, downsampleRate) ==
  /\ pc = "idle"
  /\ caller.fn = "none"
  /\ caller' = [NoCaller EXCEPT !.fn = "variationalModelFrame",
                                !.nOrders = nOrders,
                                !.rate = downsampleRate,
                                !.stage = "order"]
  /\ UNCHANGED <<net, model, noTieModel, runningModel, pc, loc, tx, rng,
                 failed, warned>>

\* Lines 152-160: the vertex order of pass i, drawn with the random stream
\* as the caller left it.
VMF_Order ==
  /\ caller.fn = "variationalModelFrame"
  /\ caller.stage = "order"
  /\ caller.i < caller.nOrders
  /\ \E vertices \in UnusedVertOrder(model, size(ObsNet)) :
        caller' = [caller EXCEPT !.vertices = vertices, !.stage = "call"]
  /\ rng' = IF OrderDraws(model, size(ObsNet)) THEN Draw(rng) ELSE rng
  /\ UNCHANGED <<net, model, noTieModel, runningModel, pc, loc, tx, failed,
                 warned>>

\* Line 161: this->modelFrameGivenOrder(downsampleRate, vertices)
VMF_Sample ==
  /\ caller.fn = "variationalModelFrame"
  /\ caller.stage = "call"
  /\ modelFrameGivenOrder(caller.rate, caller.vertices)

\* Line 161: result.push_back(...), and on to the next pass.
VMF_Push ==
  /\ caller.fn = "variationalModelFrame"
  /\ pc = "done"
  /\ caller' = [caller EXCEPT !.i = @ + 1, !.stage = "order"]
  /\ TakeResult

\* Line 163
VMF_Return ==
  /\ caller.fn = "variationalModelFrame"
  /\ caller.stage = "order"
  /\ caller.i >= caller.nOrders
  /\ caller' = NoCaller
  /\ rng' = NoRng
  /\ UNCHANGED <<net, model, noTieModel, runningModel, pc, loc, tx, failed,
                 warned>>

\* ------------------------------------- variationalModelFrameUnconstrained

\* model->network()->edgelist(): the edges as (from, to) pairs, in row order.
edgelist(g) ==
  [k \in 1..Cardinality(g.edges) |->
      CHOOSE d \in g.edges :
         Cardinality({x \in g.edges : DyadRank(g.n, x) < DyadRank(g.n, d)}) = k - 1]

\* Lines 172-175: long e = n*(n-1); if(isDirected()) e = e*0.5;
TruncatedDyads(g) == IF isDirected(g) THEN (size(g) * (size(g) - 1)) \div 2
                                      ELSE size(g) * (size(g) - 1)

\* truncRate in halves: 0.0, 0.5, 1.0
TruncRates == {0, 1, 2}

\* Lines 168-185: the call, up to the loop: the observed edges go on to
\* perm_heads (first) and perm_tails (second).
variationalModelFrameUnconstrained(nOrders, downsampleRate, truncRate) ==
  /\ pc = "idle"
  /\ caller.fn = "none"
  /\ caller' = [NoCaller EXCEPT
                  !.fn = "variationalModelFrameUnconstrained",
                  !.nOrders = nOrders,
                  !.rate = downsampleRate,
                  !.truncRate = truncRate,
                  !.perm_heads = [k \in 1..Len(edgelist(ObsNet)) |->
                                     edgelist(ObsNet)[k][1]],
                  !.perm_tails = [k \in 1..Len(edgelist(ObsNet)) |->
                                     edgelist(ObsNet)[k][2]],
                  !.stage = "pick"]
  /\ UNCHANGED <<net, model, noTieModel, runningModel, pc, loc, tx, rng,
                 failed, warned>>

\* i < (e*truncRate - perm_heads.size()) (line 195), truncRate in halves.
MorePicks(c) ==
  2 * c.k < TruncatedDyads(ObsNet) * c.truncRate - 2 * Len(c.perm_heads)

\* Lines 195-205: one more randomly chosen pair of different vertices.
VMFU_Pick ==
  /\ caller.fn = "variationalModelFrameUnconstrained"
  /\ caller.stage = "pick"
  /\ caller.i < caller.nOrders
  /\ MorePicks(caller)
  /\ \E ind_1, ind_2 \in 0..(size(ObsNet) - 1) :
        /\ ind_1 # ind_2
        /\ caller' = [caller EXCEPT
                        !.perm_heads = Append(@, At(Iota(size(ObsNet)), ind_1)),
                        !.perm_tails = Append(@, At(Iota(size(ObsNet)), ind_2)),
                        !.k = @ + 1]
  /\ rng' = Draw(rng)
  /\ UNCHANGED <<net, model, noTieModel, runningModel, pc, loc, tx, failed,
                 warned>>

\* Lines 208-209: perm_heads is shuffled, then perm_tails.
VMFU_Shuffle ==
  /\ caller.fn = "variationalModelFrameUnconstrained"
  /\ caller.stage = "pick"
  /\ caller.i < caller.nOrders
  /\ ~MorePicks(caller)
  /\ \E heads \in shuffle(caller.perm_heads, Len(caller.perm_heads)),
        tails \in shuffle(caller.perm_tails, Len(caller.perm_tails)) :
        caller' = [caller EXCEPT !.perm_heads = heads, !.perm_tails = tails,
                                 !.stage = "call"]
  /\ rng' = IF Len(caller.perm_heads) > 1 THEN Draw(rng) ELSE rng
  /\ UNCHANGED <<net, model, noTieModel, runningModel, pc, loc, tx, failed,
                 warned>>

\* Line 210: this->modelFrameGivenEdgeOrder(downsampleRate, perm_heads, perm_tails)
VMFU_Sample ==
  /\ caller.fn = "variationalModelFrameUnconstrained"
  /\ caller.stage = "call"
  /\ modelFrameGivenEdgeOrder(caller.rate, caller.perm_heads, caller.perm_tails)

\* Line 210: result.push_back(...), and on to the next pass.
VMFU_Push ==
  /\ caller.fn = "variationalModelFrameUnconstrained"
  /\ pc = "done"
  /\ caller' = [caller EXCEPT !.i = @ + 1, !.k = 0, !.stage = "pick"]
  /\ TakeResult

\* Line 212
VMFU_Return ==
  /\ caller.fn = "variationalModelFrameUnconstrained"
  /\ caller.stage = "pick"
  /\ caller.i >= caller.nOrders
  /\ caller' = NoCaller
  /\ rng' = NoRng
  /\ UNCHANGED <<net, model, noTieModel, runningModel, pc, loc, tx, failed,
                 warned>>

\* ------------------------ generateNetwork, generateNetworkReturnChanges

GenerateNetworkFns == {"generateNetwork", "generateNetworkReturnChanges"}

\* Lines 420-421 and 436-437: the call, with GetRNGstate().
generateNetwork(fn) ==
  /\ pc = "idle"
  /\ caller.fn = "none"
  /\ caller' = [NoCaller EXCEPT !.fn = fn, !.stage = "order"]
  /\ rng' = GetRNGstate(rng)
  /\ UNCHANGED <<net, model, noTieModel, runningModel, pc, loc, tx, failed,
                 warned>>

\* Lines 422-432 and 438-448: the vertex order is drawn, then
\* PutRNGstate().
GN_Order ==
  /\ caller.fn \in GenerateNetworkFns
  /\ caller.stage = "order"
  /\ \E vertices \in UnusedVertOrder(model, size(ObsNet)) :
        caller' = [caller EXCEPT !.vertices = vertices, !.stage = "call"]
  /\ rng' = PutRNGstate(IF OrderDraws(model, size(ObsNet)) THEN Draw(rng)
                                                          ELSE rng)
  /\ UNCHANGED <<net, model, noTieModel, runningModel, pc, loc, tx, failed,
                 warned>>

\* Lines 433 and 449: this->generateNetworkWithOrder(vertices, false), or
\* true in generateNetworkReturnChanges.
GN_Sample ==
  /\ caller.fn \in GenerateNetworkFns
  /\ caller.stage = "call"
  /\ generateNetworkWithOrder(caller.vertices,
                              caller.fn = "generateNetworkReturnChanges")

\* Lines 433 and 449: return of the result to R.
GN_Return ==
  /\ caller.fn \in GenerateNetworkFns
  /\ pc = "done"
  /\ caller' = NoCaller
  /\ rng' = NoRng
  /\ pc' = "idle"
  /\ loc' = NoLoc
  /\ tx' = NoTx
  /\ warned' = {}
  /\ runningModel' = noTieModel
  /\ net' = [net EXCEPT !["run"] = NoNet]
  /\ UNCHANGED <<model, noTieModel, failed>>

\* -------------------------------------------- generateNetworkUnconstrained

\* Lines 453-463: the call, with GetRNGstate().
generateNetworkUnconstrained(truncRate) ==
  /\ pc = "idle"
  /\ caller.fn = "none"
  /\ caller' = [NoCaller EXCEPT !.fn = "generateNetworkUnconstrained",
                                !.truncRate = truncRate,
                                !.stage = "pick"]
  /\ rng' = GetRNGstate(rng)
  /\ UNCHANGED <<net, model, noTieModel, runningModel, pc, loc, tx, failed,
                 warned>>

\* i < e*truncRate (line 465), truncRate in halves.
MoreDyads(c) == 2 * c.k < TruncatedDyads(ObsNet) * c.truncRate

\* Lines 465-475: one more randomly chosen pair of different vertices.
GNU_Pick ==
  /\ caller.fn = "generateNetworkUnconstrained"
  /\ caller.stage = "pick"
  /\ pc = "idle"
  /\ MoreDyads(caller)
  /\ \E ind_1, ind_2 \in 0..(size(ObsNet) - 1) :
        /\ ind_1 # ind_2
        /\ caller' = [caller EXCEPT
                        !.perm_heads = Append(@, At(Iota(size(ObsNet)), ind_1)),
                        !.perm_tails = Append(@, At(Iota(size(ObsNet)), ind_2)),
                        !.k = @ + 1]
  /\ rng' = Draw(rng)
  /\ UNCHANGED <<net, model, noTieModel, runningModel, pc, loc, tx, failed,
                 warned>>

\* Lines 478-479: this->generateNetworkWithEdgeOrder(perm_head, perm_tail).
\* On empty vectors the max_element of lines 620-621 is the end iterator,
\* and the call's course from its dereference on is "undefined".
GNU_Sample ==
  /\ caller.fn = "generateNetworkUnconstrained"
  /\ caller.stage = "pick"
  /\ pc = "idle"
  /\ ~MoreDyads(caller)
  /\ IF caller.perm_heads = <<>>
     THEN /\ pc' = "undefined"
          /\ rng' = GetRNGstate(rng)
          /\ UNCHANGED <<net, runningModel, loc, tx, warned, shared>>
     ELSE generateNetworkWithEdgeOrder(caller.perm_heads, caller.perm_tails)

\* Line 478: return of the result to R.
GNU_Return ==
  /\ caller.fn = "generateNetworkUnconstrained"
  /\ pc = "done"
  /\ caller' = NoCaller
  /\ rng' = NoRng
  /\ pc' = "idle"
  /\ loc' = NoLoc
  /\ tx' = NoTx
  /\ warned' = {}
  /\ runningModel' = noTieModel
  /\ net' = [net EXCEPT !["run"] = NoNet]
  /\ UNCHANGED <<model, noTieModel, failed>>

\* ------------------------------------------------ the public entry points

\* A call made by a public entry point ended in a failed assertion or went
\* undefined: nothing of the entry point's frame is left.
CallerAbandon ==
  /\ caller.fn # "none"
  /\ pc \in {"aborted", "undefined"}
  /\ caller' = NoCaller
  /\ rng' = NoRng
  /\ pc' = "idle"
  /\ loc' = NoLoc
  /\ tx' = NoTx
  /\ warned' = {}
  /\ runningModel' = noTieModel
  /\ net' = [net EXCEPT !["run"] = NoNet]
  /\ UNCHANGED <<model, noTieModel, failed>>

CallVariationalModelFrame ==
  /\ pc = "idle"
  /\ \E nOrders \in 1..MaxOrders, r \in Rates : variationalModelFrame(nOrders, r)

CallVariationalModelFrameUnconstrained ==
  /\ pc = "idle"
  /\ size(ObsNet) <= MaxUnconstrainedN
  /\ \E nOrders \in 1..MaxOrders, r \in Rates, t \in TruncRates :
        variationalModelFrameUnconstrained(nOrders, r, t)

CallGenerateNetwork ==
  /\ pc = "idle"
  /\ \E fn \in GenerateNetworkFns : generateNetwork(fn)

CallGenerateNetworkUnconstrained ==
  /\ pc = "idle"
  /\ size(ObsNet) <= MaxUnconstrainedN
  /\ \E t \in TruncRates : generateNetworkUnconstrained(t)

\* calcChangeStats called from R.
HostCalcChangeStats ==
  /\ caller.fn = "none"
  /\ CallCalcChangeStats

\* A call made from R returns to R.
HostReturn ==
  /\ caller.fn = "none"
  /\ Return

NextCallers ==
  \/ CallVariationalModelFrame
  \/ VMF_Order
  \/ VMF_Sample
  \/ VMF_Push
  \/ VMF_Return
  \/ MFO_Outer
  \/ MFO_Fwd
  \/ MFO_FwdResolve
  \/ MFO_Rev
  \/ MFO_RevResolve
  \/ MFO_NextVertex
  \/ MFO_Return
  \/ CallVariationalModelFrameUnconstrained
  \/ VMFU_Pick
  \/ VMFU_Shuffle
  \/ VMFU_Sample
  \/ VMFU_Push
  \/ VMFU_Return
  \/ MFE_Fwd
  \/ MFE_FwdResolve
  \/ MFE_Rev
  \/ MFE_RevResolve
  \/ MFE_Return
  \/ CallGenerateNetwork
  \/ GN_Order
  \/ GN_Sample
  \/ GN_Return
  \/ GNO_Outer
  \/ GNO_Fwd
  \/ GNO_FwdResolve
  \/ GNO_Rev
  \/ GNO_RevResolve
  \/ GNO_NextVertex
  \/ GNO_Return
  \/ CallGenerateNetworkUnconstrained
  \/ GNU_Pick
  \/ GNU_Sample
  \/ GNU_Return
  \/ GNE_Step
  \/ GNE_Resolve
  \/ GNE_Return
  \/ HostCalcChangeStats
  \/ CCS_Step
  \/ CCS_Resolve
  \/ CCS_Return
  \/ HostReturn
  \/ CallerAbandon

SpecCallers == Init /\ [][NextCallers]_vars

\* -------------------------------------------------------------- properties

VertexOrderFns == {"modelFrameGivenOrder", "generateNetworkWithOrder"}

GenerativeFns == {"generateNetworkWithOrder", "generateNetworkWithEdgeOrder"}

\* n(n-1)/2 dyads on an undirected network, n(n-1) on a directed one.
DyadCount(g) == IF g.directed THEN g.n * (g.n - 1) ELSE (g.n * (g.n - 1)) \div 2

\* A tentative update resolved by exactly one toggle of its own edge or by
\* exactly one rollback.
Resolved(t) ==
  \/ t.id = 0
  \/ /\ Len(t.res) = 1
     /\ t.res[1].kind = "toggle" => (t.res[1].u = t.u /\ t.res[1].v = t.v)

ResolvedBy(t, kind) == t.id # 0 /\ Len(t.res) = 1 /\ t.res[1].kind = kind

\* C1: in every sampler, when a dyadUpdate is issued the one before it has
\* been resolved by exactly one of a toggle of its edge and a rollback, and
\* so has the last one when the sampler returns; no dyadUpdate is ever
\* resolved twice.
C1_EveryUpdateResolvedOnce ==
  /\ [][(tx'.id # tx.id /\ tx'.id # 0) => Resolved(tx)]_vars
  /\ [](pc = "done" => Resolved(tx))
  /\ [](Len(tx.res) <= 1)

C1_Witness ==
  /\ pc = "done"
  /\ loc.fn = "modelFrameGivenOrder"
  /\ loc.rate = 1
  /\ isDirected(ObsNet)
  /\ size(ObsNet) = N
  /\ tx.id >= 3
  /\ Len(loc.outcome) \in 1..(Len(loc.visited) - 1)
  /\ ResolvedBy(tx, "rollback")

\* C2: once a tentative update has been rolled back, the running model's
\* statistics and the running network's edges are what they were when the
\* update was issued.
C2_RollbackRestores ==
  (tx.id # 0 /\ Len(tx.res) > 0 /\ tx.res[Len(tx.res)].kind = "rollback")
    => /\ statistics(runningModel) = tx.preStats
       /\ RunNet.edges = tx.preEdges

C2_Witness ==
  /\ ResolvedBy(tx, "rollback")
  /\ tx.preEdges # {}
  /\ loc.newTerms # tx.preStats
  /\ statistics(runningModel) = tx.preStats

\* C3 as amended: when a generative sampler finishes, the statistics
\* recomputed from scratch on the emitted network are the empty-network
\* statistics plus the accumulated realized statistics 'stats'.
C3_RecomputedIsBaselinePlusRealized ==
  (pc = "done" /\ loc.fn \in GenerativeFns)
    => Statistics(loc.result.network)
         = VecAdd(loc.result.emptyNetworkStats, loc.result.stats)

\* C3 as stated: the recomputed statistics are 'stats' itself.
C3_RecomputedIsRealized ==
  (pc = "done" /\ loc.fn \in GenerativeFns)
    => Statistics(loc.result.network) = loc.result.stats

C3_Witness ==
  /\ pc = "done"
  /\ loc.fn \in GenerativeFns
  /\ Cardinality(loc.result.network.edges) = 2
  /\ Len(loc.visited) > 2
  /\ loc.result.stats # Zeros(Len(loc.result.stats))

\* C4: modelFrameGivenOrder at downsampleRate 1.0 returns one outcome row
\* per dyad, n(n-1)/2 or n(n-1) of them, each the observed tie status of its
\* dyad, as many true as there are observed edges, and predictor columns,
\* one per statistic, as long as the outcome.
C4_FullRateRetainsEveryDyad ==
  (pc = "done" /\ loc.fn = "modelFrameGivenOrder" /\ loc.rate = 2)
    => LET o == loc.result.outcome
           x == loc.result.samples
       IN  /\ Len(o) = DyadCount(ObsNet)
           /\ Len(loc.visited) = Len(o)
           /\ {EdgeKey(ObsNet, loc.visited[k][1], loc.visited[k][2]) :
                  k \in 1..Len(o)} = AllDyads(ObsNet.n, ObsNet.directed)
           /\ \A k \in 1..Len(o) :
                  o[k] = (EdgeKey(ObsNet, loc.visited[k][1], loc.visited[k][2])
                            \in ObsNet.edges)
           /\ Cardinality({k \in 1..Len(o) : o[k]}) = Cardinality(ObsNet.edges)
           /\ Len(x) = Len(Statistics(ObsNet))
           /\ \A m \in 1..Len(x) : Len(x[m]) = Len(o)

C4_Witness ==
  /\ pc = "done"
  /\ loc.fn = "modelFrameGivenOrder"
  /\ loc.rate = 2
  /\ ~isDirected(ObsNet)
  /\ size(ObsNet) = N
  /\ Cardinality(ObsNet.edges) = 2
  /\ Len(loc.result.outcome) = (N * (N - 1)) \div 2

\* C5: modelFrameGivenOrder at downsampleRate 0.0 returns no row, issues a
\* tentative update for the tied dyads only, and leaves the running network
\* with exactly the observed edges.
C5_ZeroRateReplaysObserved ==
  (pc = "done" /\ loc.fn = "modelFrameGivenOrder" /\ loc.rate = 0)
    => /\ loc.result.outcome = <<>>
       /\ \A m \in 1..Len(loc.result.samples) : loc.result.samples[m] = <<>>
       /\ RunNet.edges = ObsNet.edges
       /\ tx.id = Cardinality(ObsNet.edges)

C5_Witness ==
  /\ pc = "done"
  /\ loc.fn = "modelFrameGivenOrder"
  /\ loc.rate = 0
  /\ Cardinality(ObsNet.edges) >= 2
  /\ Len(loc.visited) > Cardinality(ObsNet.edges)
  /\ RunNet.edges = ObsNet.edges

\* C6: no step of a sampling call changes the observed-bound model, the
\* empty-bound model, the observed network or the empty network, and the
\* empty network has no edge.
C6_SharedModelsUntouched ==
  /\ [][/\ model' = model
        /\ noTieModel' = noTieModel
        /\ net'["obs"] = net["obs"]
        /\ net'["empty"] = net["empty"]]_vars
  /\ [](net["empty"].edges = {})

C6_Witness ==
  /\ pc = "done"
  /\ runningModel.net = "run"
  /\ net["run"].edges # {}
  /\ net["run"].edges # net["obs"].edges
  /\ runningModel.stats # noTieModel.stats

\* C9: in the vertex-order samplers the ego of outer step i is
\* vert_order[i] and its alters are the i vertices before it, so no dyad is
\* processed twice, a directed pair is processed vertex -> alter and then
\* alter -> vertex, every tentative update finds its dyad without an edge,
\* no assertion fails, and a finished call has processed every dyad.
C9_VertexOrderVisitsEachDyadOnce ==
  (loc.fn \in VertexOrderFns)
    => LET vis == loc.visited
           g == ObsNet
       IN  /\ ~loc.assertFailed /\ pc # "aborted"
           /\ tx.id # 0 => EdgeKey(g, tx.u, tx.v) \notin tx.preEdges
           /\ \A a, b \in 1..Len(vis) :
                  a < b => /\ vis[a] # vis[b]
                           /\ g.directed \/ vis[a] # <<vis[b][2], vis[b][1]>>
           /\ \A k \in 1..Len(vis) :
                  LET ego == IF g.directed /\ k % 2 = 0 THEN vis[k][2] ELSE vis[k][1]
                      alt == IF g.directed /\ k % 2 = 0 THEN vis[k][1] ELSE vis[k][2]
                  IN  \E i \in 0..(g.n - 1) :
                         /\ ego = At(loc.vert_order, i)
                         /\ \E h \in 0..(i - 1) : alt = At(loc.vert_order, h)
           /\ \A k \in 1..Len(vis) :
                  (g.directed /\ k % 2 = 0) => vis[k] = <<vis[k - 1][2], vis[k - 1][1]>>
           /\ pc \in {"mfo_fwd", "mfo_rev", "gno_fwd", "gno_rev"}
                 => /\ loc.vertex = At(loc.vert_order, loc.i)
                    /\ {At(loc.workingVertOrder, h) : h \in 0..(loc.i - 1)}
                          = {At(loc.vert_order, h) : h \in 0..(loc.i - 1)}
           /\ pc = "done" => Len(vis) = DyadCount(g)

C9_Witness ==
  /\ pc = "done"
  /\ loc.fn = "generateNetworkWithOrder"
  /\ isDirected(ObsNet)
  /\ size(ObsNet) = N
  /\ loc.workingVertOrder # loc.vert_order
  /\ Len(loc.visited) = N * (N - 1)

\* The observed network cut down to the first k dyads of the edge order.
ObservedUpTo(k) ==
  [ObsNet EXCEPT !.edges =
      {e \in @ : \E h \in 1..k :
                    EdgeKey(ObsNet, loc.perm_tails[h], loc.perm_heads[h]) = e}]

\* C10: calcChangeStats on an edge order naming every dyad once returns e
\* vectors, the k-th the statistics with dyad k toggled minus the statistics
\* without, on the observed network cut down to the dyads before k; a dyad
\* is committed if the observed network has it and rolled back otherwise,
\* and the running network ends as the observed one.
C10_ChangeStatsReplayObserved ==
  (loc.fn = "calcChangeStats")
    => /\ (pc = "ccs_step" /\ tx.id # 0)
             => /\ Len(tx.res) = 1
                /\ (tx.res[1].kind = "toggle")
                      = (EdgeKey(ObsNet, tx.u, tx.v) \in ObsNet.edges)
       /\ pc = "done"
             => /\ Len(loc.result) = DyadCount(ObsNet)
                /\ \A k \in 1..Len(loc.result) :
                       loc.result[k] =
                          VecSub(Statistics(toggle(ObservedUpTo(k - 1),
                                                   loc.perm_tails[k],
                                                   loc.perm_heads[k])),
                                 Statistics(ObservedUpTo(k - 1)))
                /\ RunNet.edges = ObsNet.edges

C10_Witness ==
  /\ pc = "done"
  /\ loc.fn = "calcChangeStats"
  /\ isDirected(ObsNet)
  /\ size(ObsNet) = N
  /\ Cardinality(ObsNet.edges) = 3
  /\ RunNet.edges = ObsNet.edges
  /\ Len(loc.result) = N * (N - 1)

\* The entry points that take an edge order.
EdgeOrderFns ==
  {"modelFrameGivenEdgeOrder", "generateNetworkWithEdgeOrder", "calcChangeStats"}

\* C7: whenever the engine is given a model whose ordering covariate has a
\* length other than the network's vertex count, at construction and at
\* assignment alike, the operation raises the error and no engine goes on
\* with that model.
C7_OrderMismatchFails ==
  OrderMismatch(model, ObsNet) => (failed /\ pc = "unbuilt")

\* Some head or tail of the call's edge order is not a vertex of the network.
NamesMissingVertex(lc) ==
  \E k \in 1..Len(lc.perm_heads) :
     \/ ~InRange(size(ObsNet), lc.perm_heads[k])
     \/ ~InRange(size(ObsNet), lc.perm_tails[k])

\* C8: whenever the edge order given to an edge-order entry point holds a
\* head or a tail outside [0, n), too large or negative, the call has
\* logged the warning, and it does not abort.
C8_MissingVertexWarned ==
  (loc.fn \in EdgeOrderFns /\ NamesMissingVertex(loc)) =>
      /\ "The perm has vertices that don't exist" \in warned
      /\ pc # "aborted"

\* A vertex order that has every vertex once and puts a vertex with a
\* smaller covariate before one with a larger.
ConsistentWith(p, order) ==
  /\ p \in Perms(Len(order))
  /\ \A a, b \in 0..(Len(order) - 1) :
        At(order, At(p, a)) < At(order, At(p, b)) => a < b

\* C11: generateOrder returns a permutation of [0, n), one entry per
\* vertex, in which a vertex with a smaller covariate comes before one with
\* a larger; and every such permutation is one it can return.
C11_GenerateOrderConsistent ==
  /\ (loc.fn = "generateOrder" /\ pc = "done") =>
        ConsistentWith(loc.vert_order, model.vertexOrder)
  /\ model.hasVertexOrder =>
        \A p \in Perms(Len(model.vertexOrder)) :
           ConsistentWith(p, model.vertexOrder) =>
              p \in generateOrder(model.vertexOrder)

\* An order returned for a covariate with a tie and a strict step: the tied
\* vertices 0 and 1 come in the other order, before vertex 2.
C11_Witness ==
  /\ loc.fn = "generateOrder"
  /\ pc = "done"
  /\ model.vertexOrder = <<1, 1, 2>>
  /\ loc.vert_order = <<1, 0, 2>>

\* How often x occurs in vec.
Count(vec, x) == Cardinality({k \in 1..Len(vec) : vec[k] = x})

\* The vectors that hold the entries of vec below position offset in some
\* arrangement and agree with vec from offset on.
Arrangements(vec, offset) ==
  {w \in [1..Len(vec) -> Range(vec)] :
      /\ \A x \in Range(vec) : Count(w, x) = Count(vec, x)
      /\ \A k \in (offset + 1)..Len(vec) : w[k] = vec[k]}

\* C17: shuffle(vec, limit) with 0 <= limit <= length(vec) keeps the multiset
\* of vec and every entry at an index >= limit, swaps position i only with
\* an index in [i, limit), and can produce every arrangement of the first
\* limit entries.
C17_ShuffleWithinLimit ==
  loc.fn = "shuffle" =>
     /\ loc.workingVertOrder \in Arrangements(loc.vert_order, loc.offset)
     /\ loc.i > 0 => (loc.i - 1 <= loc.ind /\ loc.ind < loc.offset)
     /\ shuffle(loc.vert_order, loc.offset) =
           Arrangements(loc.vert_order, loc.offset)
     /\ pc = "done" => loc.workingVertOrder \in shuffle(loc.vert_order, loc.offset)

\* A shuffle of the first two of three entries that has swapped them.
C17_Witness ==
  /\ loc.fn = "shuffle"
  /\ pc = "done"
  /\ loc.offset = 2
  /\ loc.vert_order = <<0, 1, 2>>
  /\ loc.workingVertOrder = <<1, 0, 2>>

\* C12: every draw from the random stream made by a sampling call, through
\* whichever public entry point, is made while the stream is acquired:
\* after a GetRNGstate and before the PutRNGstate that matches it.
C12_DrawsWhileAcquired == ~rng.unheld

\* 1 / (1 + e^0): the probability 0.5.
Half == [one |-> 1, expOf |-> 0]

\* Where a generative sampler stands between a tentative update and its
\* draw.
GenerateResolvePcs == {"gno_fwd_resolve", "gno_rev_resolve", "gne_resolve"}

AllThetasZero == \A m \in 1..Len(runningModel.thetas) : runningModel.thetas[m] = 0

\* C13: when every theta is 0, at every dyad a generative sampler processes
\* the log-likelihood change of the tentative update is 0 and the tie
\* probability is exactly 0.5, so the draw can go either way, whatever the
\* order and whatever edges are already realized.
C13_ZeroThetasEvenOdds ==
  (AllThetasZero /\ pc \in GenerateResolvePcs) =>
     /\ loc.llikChange = 0
     /\ loc.probTie = Half
     /\ TieDraws(loc.probTie) = BOOLEAN

\* A directed network of three vertices generated under zero thetas with
\* some dyads realized and their reverses not.
C13_Witness ==
  /\ loc.fn = "generateNetworkWithOrder"
  /\ pc = "done"
  /\ AllThetasZero
  /\ RunNet.n = 3
  /\ RunNet.edges = {<<0, 1>>, <<2, 1>>, <<0, 2>>}

\* Where an edge-order entry point stands right after a tentative update.
EdgeOrderResolvePcs ==
  {"mfe_fwd_resolve", "mfe_rev_resolve", "gne_resolve", "ccs_resolve"}

\* C14: in the edge-order entry points the ego index handed to every
\* dyadUpdate is the position of the dyad's tail vertex in the internally
\* generated vertex order: vert_order[egoIndex] = vertex.
C14_EgoIndexIsTailPosition ==
  (loc.fn \in EdgeOrderFns /\ pc \in EdgeOrderResolvePcs) =>
     /\ tx.ego < Len(loc.vert_order)
     /\ At(loc.vert_order, tx.ego) = loc.vertex

ReplayFns == {"modelFrameGivenOrder", "modelFrameGivenEdgeOrder"}

\* C15: in the replay sampler every processed dyad has a retain decision
\* of its own: the decision applied to a dyad was drawn for that dyad, the
\* two directions of a pair on a directed network included.
C15_RetainDecisionPerDyad ==
  (loc.fn \in ReplayFns /\ loc.visited # <<>>) =>
     loc.sampleFor = loc.visited[Len(loc.visited)]

\* The entries of vec at the C++ positions from..(to - 1).
Entries(vec, from, to) == {At(vec, k) : k \in from..(to - 1)}

\* C16, as the code has it: in the vertex-order samplers the shuffle of
\* outer step i rearranges only the positions below i, those of the
\* vertices already visited; every position from i on holds what the
\* caller's vert_order holds there.
C16_ShuffleRearrangesVisitedPrefix ==
  (loc.fn \in VertexOrderFns /\ pc \notin {"done", "aborted"}) =>
     /\ \A k \in loc.i..(Len(loc.vert_order) - 1) :
           At(loc.workingVertOrder, k) = At(loc.vert_order, k)
     /\ Entries(loc.workingVertOrder, 0, loc.i) = Entries(loc.vert_order, 0, loc.i)

\* C16, as stated: the shuffle of outer step i re-draws the order of the
\* vertices not yet visited, those at positions >= i, and so leaves the
\* positions below i as they are.
C16_ShuffleRedrawsUnvisitedSuffix ==
  [][(pc \in {"mfo_outer", "gno_outer"} /\ pc' \in {"mfo_fwd", "gno_fwd"}) =>
        \A k \in 0..(loc.i - 1) :
           At(loc'.workingVertOrder, k) = At(loc.workingVertOrder, k)]_vars

\* The third vertex of the order <<0, 1, 2>> is the ego and the two visited
\* before it have changed places.
C16_Witness ==
  /\ loc.fn \in VertexOrderFns
  /\ pc \in {"mfo_fwd", "gno_fwd"}
  /\ loc.i = 2
  /\ loc.vert_order = <<0, 1, 2>>
  /\ loc.workingVertOrder = <<1, 0, 2>>

\* The change statistics of the tentative update that is open: the
\* statistics after it minus the statistics before it.
OpenChange == VecSub(statistics(runningModel), tx.preStats)

\* A generative sampler's step from a tentative update on (tx.u, tx.v) to
\* its resolution, where the sums are as the claim has them: the realized
\* statistics grow by the change exactly if the dyad was committed, the
\* expected statistics grow by the change times probTie either way, and a
\* dyad not committed is rolled back.
GenerateStepSums ==
  /\ loc'.stats = (IF loc'.hasEdge THEN VecAdd(loc.stats, OpenChange)
                                    ELSE loc.stats)
  /\ loc'.eStats = [m \in 1..Len(loc.eStats) |->
                       AddWeighted(loc.eStats[m], OpenChange[m], loc.probTie)]
  /\ ~loc'.hasEdge => /\ net' = net
                       /\ statistics(runningModel') = tx.preStats
                       /\ ResolvedBy(tx', "rollback")

\* C18: in the generative sampler a dyad is committed, its edge toggled on,
\* exactly if the draw is below probTie, and is rolled back otherwise; the
\* realized statistics grow by the change exactly if it was committed and
\* the expected statistics grow by the change times probTie either way.
C18_CommitTogglesOn ==
  [][(pc \in GenerateResolvePcs /\ pc' # pc) =>
        /\ GenerateStepSums
        /\ loc'.hasEdge =>
              /\ ~hasEdge(RunNet, tx.u, tx.v)
              /\ hasEdge(RunNet', tx.u, tx.v)]_vars

\* The number of dyads of the network being generated: n(n-1) directed,
\* n(n-1)/2 undirected.
TableSlots ==
  IF isDirected(RunNet) THEN size(RunNet) * (size(RunNet) - 1)
                        ELSE (size(RunNet) * (size(RunNet) - 1)) \div 2

\* The slot of the dyad of outer step i and inner step j: undirected
\* i(i-1)/2 + j; directed i(i-1) + 2j forward and i(i-1) + 2j + 1 reverse.
DyadSlot(i, j, reverse) ==
  IF isDirected(RunNet)
  THEN i * (i - 1) + 2 * j + (IF reverse THEN 1 ELSE 0)
  ELSE (i * (i - 1)) \div 2 + j

\* generateNetworkWithOrder is recording change statistics.
Recording == loc.fn = "generateNetworkWithOrder" /\ loc.storeChangeStats

\* The table has e slots, no slot outside [0, e) is written, none is
\* written twice, and at the return every one has been written.
SlotsWrittenOnce ==
  Recording =>
    /\ Len(loc.changeStats) = TableSlots
    /\ \A k \in 1..Len(loc.written) :
          /\ loc.written[k] \in 0..(TableSlots - 1)
          /\ \A h \in 1..Len(loc.written) :
                loc.written[h] = loc.written[k] => h = k
    /\ pc = "done" =>
          {loc.written[k] : k \in 1..Len(loc.written)} = 0..(TableSlots - 1)

\* The step that resolves the dyad of steps i, j writes that dyad's change
\* statistics to the dyad's slot.
SlotHoldsOwnChange ==
  (Recording /\ pc \in {"gno_fwd_resolve", "gno_rev_resolve"} /\ pc' # pc) =>
     LET slot == DyadSlot(loc.i, loc.j, pc = "gno_rev_resolve")
     IN  /\ loc'.written = Append(loc.written, slot)
         /\ slot + 1 \in DOMAIN loc'.changeStats
         /\ loc'.changeStats[slot + 1] = OpenChange
         /\ \A k \in DOMAIN loc.changeStats \ {slot + 1} :
               loc'.changeStats[k] = loc.changeStats[k]

\* C19: generateNetworkWithOrder with storeChangeStats has a table of e
\* slots, writes every slot in [0, e) exactly once and none outside; the
\* dyad of steps i, j goes to slot i(i-1)/2 + j undirected, to
\* i(i-1) + 2j directed and its reverse to i(i-1) + 2j + 1, each slot
\* holding its own dyad's change statistics.
C19_EverySlotWrittenOnce ==
  /\ []SlotsWrittenOnce
  /\ [][SlotHoldsOwnChange]_vars

\* A recorded run on a directed network of three vertices has returned with
\* its six slots written, the last of them holding a non-zero change.
C19_Witness ==
  /\ Recording
  /\ pc = "done"
  /\ isDirected(RunNet)
  /\ size(RunNet) = 3
  /\ Len(loc.written) = 6
  /\ loc.changeStats[6] # Zeros(Len(model.thetas))
  /\ loc.result.changeStats = loc.changeStats

\* The annotation a finished generateNetworkWithOrder attaches sends the
\* vertex at every position of vert_order to that position.
RankInvertsOrder ==
  (pc = "done" /\ loc.fn = "generateNetworkWithOrder") =>
     /\ Len(loc.result.order) = Len(loc.vert_order)
     /\ \A i \in 0..(Len(loc.vert_order) - 1) :
           At(loc.result.order, At(loc.vert_order, i)) = i

\* The ego of outer step i is the vertex at position i of vert_order, and
\* vert_order is the caller's throughout the call.
EgoOfStepIsOrderEntry ==
  /\ (loc.fn = "generateNetworkWithOrder" /\ pc = "gno_outer" /\ pc' = "gno_fwd")
        => loc'.vertex = At(loc.vert_order, loc.i)
  /\ (loc.fn = "generateNetworkWithOrder" /\ pc # "idle" /\ pc' # "idle")
        => loc'.vert_order = loc.vert_order

PairsOf(perm_heads, perm_tails) ==
  LET pairs == {<<perm_heads[k], perm_tails[k]>> : k \in 1..Len(perm_heads)}
  IN  [d \in pairs |->
         Cardinality({k \in 1..Len(perm_heads) :
                         <<perm_heads[k], perm_tails[k]>> = d})]

\* variationalModelFrameUnconstrained has handed its edge order to
\* modelFrameGivenEdgeOrder.
UnconstrainedReplay ==
  /\ caller.fn = "variationalModelFrameUnconstrained"
  /\ loc.fn = "modelFrameGivenEdgeOrder"

\* Every observed edge is the pair at some position of the edge order, and
\* no position pairs a vertex with itself.
KeepsObservedEdges ==
  UnconstrainedReplay =>
    /\ Len(loc.perm_heads) = Len(loc.perm_tails)
    /\ \A d \in ObsNet.edges :
          \E k \in 1..Len(loc.perm_heads) :
             EdgeKey(ObsNet, loc.perm_heads[k], loc.perm_tails[k]) = d
    /\ \A k \in 1..Len(loc.perm_heads) : loc.perm_heads[k] # loc.perm_tails[k]

\* The shuffling of lines 208-209 moves the pairs and leaves them paired.
ShuffleKeepsPairs ==
  (/\ caller.fn = "variationalModelFrameUnconstrained"
   /\ caller.stage = "pick"
   /\ caller'.stage = "call")
     => PairsOf(caller'.perm_heads, caller'.perm_tails)
           = PairsOf(caller.perm_heads, caller.perm_tails)

\* C21: the edge order variationalModelFrameUnconstrained hands to
\* modelFrameGivenEdgeOrder has every observed edge as the pair at some
\* position and no pair of a vertex with itself; the shuffling changes the
\* positions of the pairs, not the pairing.
C21_EdgeOrderKeepsObservedEdges ==
  /\ []KeepsObservedEdges
  /\ [][ShuffleKeepsPairs]_vars

\* An edge-order sampler is running on the edge order that
\* variationalModelFrameUnconstrained or generateNetworkUnconstrained built.
UnconstrainedRun ==
  \/ UnconstrainedReplay
  \/ /\ caller.fn = "generateNetworkUnconstrained"
     /\ loc.fn = "generateNetworkWithEdgeOrder"

\* The tentative update that was made last found its dyad without an edge
\* on the running network, and no assertion has failed.
UpdateFoundNoEdge ==
  UnconstrainedRun =>
    /\ pc # "aborted"
    /\ tx.id # 0 => EdgeKey(ObsNet, tx.u, tx.v) \notin tx.preEdges

\* No step of the run removes an edge of the running network.
KeepsCommittedEdges ==
  (UnconstrainedRun /\ loc'.fn = loc.fn) => RunNet.edges \subseteq RunNet'.edges

\* C22: in modelFrameGivenEdgeOrder as driven by
\* variationalModelFrameUnconstrained and in generateNetworkWithEdgeOrder as
\* driven by generateNetworkUnconstrained, every tentative update finds no
\* edge at its dyad on the running network, so no dyad is toggled twice and
\* a committed edge is never removed.
C22_UnconstrainedDyadsHaveNoEdge ==
  /\ []UpdateFoundNoEdge
  /\ [][KeepsCommittedEdges]_vars

\* A step by which a public entry point returns to R: a sampler called from
\* R hands over its result, or an entry point that calls a sampler ends.
EntryPointReturns ==
  \/ caller.fn = "none" /\ pc = "done" /\ pc' = "idle"
  \/ caller.fn # "none" /\ caller'.fn = "none" /\ pc \notin {"aborted", "undefined"}

\* C23: acquisition and release of the random stream are balanced in every
\* public entry point: no PutRNGstate comes without its GetRNGstate, and
\* when the entry point returns no acquisition is outstanding.
C23_StreamReleasedOnReturn ==
  /\ [](rng.held >= 0)
  /\ [][EntryPointReturns => rng.held = 0]_vars

\* C24: in generateNetworkWithEdgeOrder the table has e slots, e = n(n-1)
\* directed and n(n-1)/2 undirected, every write changeStats[i] is inside
\* it and no more than e dyads are processed, on the edge orders
\* generateNetworkUnconstrained builds.
C24_EdgeOrderWritesInsideTable ==
  loc.fn = "generateNetworkWithEdgeOrder" =>
    /\ Len(loc.changeStats) = TableSlots
    /\ Len(loc.visited) <= TableSlots
    /\ \A k \in 1..Len(loc.written) : loc.written[k] \in 0..(TableSlots - 1)

====
